---------------------------- MODULE Spec2Model ----------------------------
(***************************************************************************)
(* Model of the BMAD Copilot adapter's command registry                    *)
(* (commandRegistry.ts): the CSV manifest reader, the slash-name / CLI     *)
(* syntax codec, CommandRegistry.scan with its concurrent manifest reads   *)
(* and its link pass over .github/prompts and .github/agents.              *)
(*                                                                         *)
(* A JavaScript string is a sequence of one-character strings, so that     *)
(* splitting, prefix tests and parsing are computed as the code computes   *)
(* them.  A path is the sequence of its segments (the root is <<>>).       *)
(***************************************************************************)
EXTENDS Integers, Sequences, FiniteSets, TLC

(***************************************************************************)
(* String literals of the program.                                         *)
(***************************************************************************)
c_bmad == <<"b","m","a","d">>
c_agent == <<"a","g","e","n","t">>
c_core == <<"c","o","r","e">>
c_undefined == <<"u","n","d","e","f","i","n","e","d">>
c_Agent == <<"A","g","e","n","t">>
c_yaml == <<".","y","a","m","l">>
c_yml == <<".","y","m","l">>
c_xml == <<".","x","m","l">>
c_promptExt == <<".","p","r","o","m","p","t",".","m","d">>
c_agentExt == <<".","a","g","e","n","t",".","m","d">>
c_agentsInfix == <<"-","a","g","e","n","t","s","-">>
c_config == <<"_","c","o","n","f","i","g">>
c_memory == <<"_","m","e","m","o","r","y">>
c_docs == <<"d","o","c","s">>
c__bmad == <<"_","b","m","a","d">>
c_github == <<".","g","i","t","h","u","b">>
c_prompts == <<"p","r","o","m","p","t","s">>
c_agents == <<"a","g","e","n","t","s">>
c_helpCsv == <<"b","m","a","d","-","h","e","l","p",".","c","s","v">>
c_agentCsv == <<"a","g","e","n","t","-","m","a","n","i","f","e","s","t",".","c","s","v">>
c_workflowCsv == <<"w","o","r","k","f","l","o","w","-","m","a","n","i","f","e","s","t",".","c","s","v">>
c_taskCsv == <<"t","a","s","k","-","m","a","n","i","f","e","s","t",".","c","s","v">>
c_toolCsv == <<"t","o","o","l","-","m","a","n","i","f","e","s","t",".","c","s","v">>
k_command == <<"c","o","m","m","a","n","d">>
k_workflowFile == <<"w","o","r","k","f","l","o","w","-","f","i","l","e">>
k_description == <<"d","e","s","c","r","i","p","t","i","o","n">>
k_name == <<"n","a","m","e">>
k_module == <<"m","o","d","u","l","e">>
k_agentName == <<"a","g","e","n","t","-","n","a","m","e">>
k_agentTitle == <<"a","g","e","n","t","-","t","i","t","l","e">>
k_icon == <<"i","c","o","n">>
k_displayName == <<"d","i","s","p","l","a","y","N","a","m","e">>
k_title == <<"t","i","t","l","e">>
k_role == <<"r","o","l","e">>
k_path == <<"p","a","t","h">>

\* The value `undefined` (a missing column, an absent optional field).  It is
\* a sequence, like every string, and no string equals it.
Undefined == <<"<undefined>">>

\* The character U+2014 (em dash) of the agent description template.
EmDash == "U+2014"

\* U+FEFF, the byte-order mark, as one character
BOM == "U+FEFF"

\* White space removed by String.prototype.trim: the WhiteSpace and
\* LineTerminator characters of ECMAScript that occur in the inputs; U+FEFF is
\* one of them.
WhiteSpace == {" ", "\t", "\n", "\r", BOM}

(***************************************************************************)
(* JavaScript string and array primitives.                                 *)
(***************************************************************************)
\* a truthy string: neither undefined nor empty
Truthy(v) == v # Undefined /\ v # <<>>

\* a || b
Or(a, b) == IF Truthy(a) THEN a ELSE b

\* `${v}` inside a template literal
Str(v) == IF v = Undefined THEN c_undefined ELSE v

startsWith(s, p) == Len(s) >= Len(p) /\ SubSeq(s, 1, Len(p)) = p

endsWith(s, p) == Len(s) >= Len(p) /\ SubSeq(s, Len(s) - Len(p) + 1, Len(s)) = p

\* s.slice(n): the string from 0-based index n on
slice(s, n) == SubSeq(s, n + 1, Len(s))

\* s.replaceAll(a, b) for one-character a and b
replaceAll(s, a, b) == [i \in 1..Len(s) |-> IF s[i] = a THEN b ELSE s[i]]

\* s.trim()
trim(s) ==
  LET keep == {i \in 1..Len(s) : s[i] \notin WhiteSpace}
  IN  IF keep = {} THEN <<>>
      ELSE LET lo == CHOOSE i \in keep : \A j \in keep : i <= j
               hi == CHOOSE i \in keep : \A j \in keep : j <= i
           IN  SubSeq(s, lo, hi)

\* s.split(ch) for a one-character separator: always at least one part
RECURSIVE split(_, _)
split(s, ch) ==
  LET hits == {i \in 1..Len(s) : s[i] = ch}
  IN  IF hits = {} THEN <<s>>
      ELSE LET i == CHOOSE h \in hits : \A j \in hits : h <= j
           IN  <<SubSeq(s, 1, i - 1)>> \o split(SubSeq(s, i + 1, Len(s)), ch)

\* parts.join(sep)
RECURSIVE join(_, _)
join(parts, sep) ==
  IF parts = <<>> THEN <<>>
  ELSE IF Len(parts) = 1 THEN Str(parts[1])
  ELSE Str(parts[1]) \o sep \o join(Tail(parts), sep)

\* the elements of a sequence that satisfy Test, in order
RECURSIVE SelectSeqIdx(_, _)
SelectSeqIdx(s, keep) ==
  IF s = <<>> THEN <<>>
  ELSE (IF 1 \in keep THEN <<s[1]>> ELSE <<>>)
       \o SelectSeqIdx(Tail(s), {i - 1 : i \in keep \ {1}})

(***************************************************************************)
(* CSV parsing.                                                            *)
(***************************************************************************)
\* (a variant of the iteration that takes every quote for a delimiter)
parseCsvLineStepNoEscape(line, loop) ==
  IF loop.i > Len(line) THEN loop
  ELSE LET ch == line[loop.i] IN
    IF loop.inQuotes THEN
      IF ch = "\"" THEN [loop EXCEPT !.inQuotes = FALSE, !.i = @ + 1]
      ELSE [loop EXCEPT !.current = Append(@, ch), !.i = @ + 1]
    ELSE IF ch = "\"" THEN [loop EXCEPT !.inQuotes = TRUE, !.i = @ + 1]
    ELSE IF ch = "," THEN [loop EXCEPT !.fields = Append(@, loop.current),
                                       !.current = <<>>, !.i = @ + 1]
    ELSE [loop EXCEPT !.current = Append(@, ch), !.i = @ + 1]

\* parseCsvLine, one iteration of the loop over the characters of the line:
\* loop holds the loop variable i (1-based) and the locals current, inQuotes
\* and fields.  Past the end of the line the loop has stopped.
parseCsvLineStep(line, loop) ==
  IF loop.i > Len(line) THEN loop
  ELSE LET ch == line[loop.i] IN
    IF loop.inQuotes THEN
      IF ch = "\"" THEN
        IF loop.i + 1 <= Len(line) /\ line[loop.i + 1] = "\""
        THEN [loop EXCEPT !.current = Append(@, "\""), !.i = @ + 2]
        ELSE [loop EXCEPT !.inQuotes = FALSE, !.i = @ + 1]
      ELSE [loop EXCEPT !.current = Append(@, ch), !.i = @ + 1]
    ELSE IF ch = "\"" THEN [loop EXCEPT !.inQuotes = TRUE, !.i = @ + 1]
    ELSE IF ch = "," THEN [loop EXCEPT !.fields = Append(@, loop.current),
                                       !.current = <<>>, !.i = @ + 1]
    ELSE [loop EXCEPT !.current = Append(@, ch), !.i = @ + 1]

\* n iterations of the loop (the recursion halves n, so that its depth stays
\* logarithmic in the length of the line)
RECURSIVE parseCsvLineSteps(_, _, _)
parseCsvLineSteps(line, loop, n) ==
  IF n = 0 THEN loop
  ELSE IF n = 1 THEN parseCsvLineStep(line, loop)
  ELSE LET half == parseCsvLineSteps(line, loop, n \div 2)
       IN  IF half.i > Len(line) THEN half
           ELSE parseCsvLineSteps(line, half, n - (n \div 2))

parseCsvLine(line) ==
  LET loop == parseCsvLineSteps(line,
                                [i |-> 1, current |-> <<>>, inQuotes |-> FALSE,
                                 fields |-> <<>>],
                                Len(line))
  IN  Append(loop.fields, loop.current)

\* (a variant that leaves a missing field undefined)
csvRecordNoFill(headers, values) ==
  [k \in {headers[h] : h \in 1..Len(headers)} |->
     LET last == CHOOSE h \in 1..Len(headers) :
                   /\ headers[h] = k
                   /\ \A g \in 1..Len(headers) : headers[g] = k => g <= h
     IN  IF last <= Len(values) THEN trim(values[last]) ELSE Undefined]

\* the record built from one data line: header key -> trimmed value; with a
\* repeated header the last column of that name is the one kept
csvRecord(headers, values) ==
  [k \in {headers[h] : h \in 1..Len(headers)} |->
     LET last == CHOOSE h \in 1..Len(headers) :
                   /\ headers[h] = k
                   /\ \A g \in 1..Len(headers) : headers[g] = k => g <= h
     IN  IF last <= Len(values) THEN trim(values[last]) ELSE <<>>]

parseCsv(csv) ==
  LET all   == split(csv, "\n")
      lines == SelectSeqIdx(all, {i \in 1..Len(all) :
                                    trim(all[i]) # <<>> /\ ~startsWith(all[i], <<"#">>)})
  IN  IF Len(lines) < 2 THEN <<>>
      ELSE LET raw     == parseCsvLine(lines[1])
               headers == [h \in 1..Len(raw) |-> trim(raw[h])]
           IN  [r \in 1..(Len(lines) - 1) |-> csvRecord(headers, parseCsvLine(lines[r + 1]))]

(***************************************************************************)
(* Slash-name <-> CLI syntax.                                              *)
(***************************************************************************)
cliToSlash(cli) == replaceAll(cli, ":", "-")

\* parts[i] of a JavaScript array (0-based), undefined past the end
At(parts, i) == IF i + 1 <= Len(parts) THEN parts[i + 1] ELSE Undefined

\* (a variant that takes every agent name for a core agent's)
slashToCliAgentCoreOnly(parts) ==
  c_bmad \o <<":">> \o c_agent \o <<":">> \o join(slice(parts, 2), <<"-">>)

\* the branch of slashToCli for bmad-agent-...
slashToCliAgent(parts) ==
  IF Len(parts) >= 4
  THEN c_bmad \o <<":">> \o c_agent \o <<":">> \o parts[3] \o <<":">>
         \o join(slice(parts, 3), <<"-">>)
  ELSE c_bmad \o <<":">> \o c_agent \o <<":">> \o join(slice(parts, 2), <<"-">>)

\* (a variant that separates all the tokens with colons)
slashToCliCommandAllColons(parts) ==
  IF Len(parts) = 2 THEN c_bmad \o <<":">> \o parts[2]
  ELSE c_bmad \o <<":">> \o Str(At(parts, 1)) \o <<":">> \o join(slice(parts, 2), <<":">>)

\* the branches of slashToCli for the other names that begin with bmad
slashToCliCommand(parts) ==
  IF Len(parts) = 2 THEN c_bmad \o <<":">> \o parts[2]
  ELSE c_bmad \o <<":">> \o Str(At(parts, 1)) \o <<":">> \o join(slice(parts, 2), <<"-">>)

\* (a variant that keeps the module only)
slashToCliModuleOnly(slash) ==
  LET clean == IF startsWith(slash, <<"/">>) THEN slice(slash, 1) ELSE slash
      parts == split(clean, "-")
  IN  IF parts[1] # c_bmad THEN clean
      ELSE c_bmad \o <<":">> \o Str(At(parts, 1))

slashToCli(slash) ==
  LET clean == IF startsWith(slash, <<"/">>) THEN slice(slash, 1) ELSE slash
      parts == split(clean, "-")
  IN  IF parts[1] # c_bmad THEN clean
      ELSE IF At(parts, 1) = c_agent THEN slashToCliAgent(parts)
      ELSE slashToCliCommand(parts)

\* (a variant that takes every file that is not XML for a YAML workflow)
detectPatternXmlOrYaml(workflowFile) ==
  IF endsWith(workflowFile, c_xml) THEN "task" ELSE "yaml-workflow"

detectPattern(workflowFile) ==
  IF endsWith(workflowFile, c_yaml) \/ endsWith(workflowFile, c_yml) THEN "yaml-workflow"
  ELSE IF endsWith(workflowFile, c_xml) THEN "task"
  ELSE "md-workflow"

(***************************************************************************)
(* A JavaScript Map: the sequence of its entries in insertion order.       *)
(***************************************************************************)
mapHas(map, key) == \E i \in 1..Len(map) : map[i].key = key

mapIndex(map, key) == CHOOSE i \in 1..Len(map) : map[i].key = key

mapGet(map, key) == map[mapIndex(map, key)].val

\* map.set(key, val): a new key is appended, an existing key keeps its place
mapSet(map, key, val) ==
  IF mapHas(map, key)
  THEN [map EXCEPT ![mapIndex(map, key)].val = val]
  ELSE Append(map, [key |-> key, val |-> val])

mapKeys(map) == {map[i].key : i \in 1..Len(map)}

\* entry[column] of a parsed row
Get(entry, column) == IF column \in DOMAIN entry THEN entry[column] ELSE Undefined

\* value?.trim()
trimOpt(v) == IF v = Undefined THEN Undefined ELSE trim(v)

(***************************************************************************)
(* Command registration (first write wins).                                *)
(***************************************************************************)
\* (a variant that stores every record, so that the last row of a name wins)
setAlways(map, cmd) == mapSet(map, cmd.slashName, cmd)

\* (a variant that stores the record under its CLI syntax)
setIfAbsentByCliSyntax(map, cmd) ==
  IF ~mapHas(map, cmd.cliSyntax) THEN mapSet(map, cmd.cliSyntax, cmd) ELSE map

\* if (!map.has(cmd.slashName)) map.set(cmd.slashName, cmd)
setIfAbsent(map, cmd) ==
  IF ~mapHas(map, cmd.slashName) THEN mapSet(map, cmd.slashName, cmd) ELSE map

registerHelpEntry(entry, map) ==
  LET commandName  == trimOpt(Get(entry, k_command))
      workflowFile == Or(trimOpt(Get(entry, k_workflowFile)), <<>>)
      cmd == [slashName      |-> commandName,
              cliSyntax      |-> slashToCli(commandName),
              description    |-> Or(Get(entry, k_description), Or(Get(entry, k_name), commandName)),
              category       |-> "workflow",
              module         |-> Or(Get(entry, k_module), c_core),
              filePath       |-> workflowFile,
              agentName      |-> Or(Get(entry, k_agentName), <<>>),
              agentTitle     |-> Or(Get(entry, k_agentTitle), <<>>),
              pattern        |-> IF Truthy(workflowFile) THEN detectPattern(workflowFile)
                                 ELSE "md-workflow",
              promptFilePath |-> Undefined]
  IN  IF ~Truthy(commandName) THEN map ELSE setIfAbsent(map, cmd)

registerAgentActivator(agent, map) ==
  LET mod       == Or(Get(agent, k_module), c_core)
      name      == Get(agent, k_name)
      slashName == IF mod = c_core
                   THEN c_bmad \o <<"-">> \o c_agent \o <<"-">> \o Str(name)
                   ELSE c_bmad \o <<"-">> \o c_agent \o <<"-">> \o mod \o <<"-">> \o Str(name)
      cmd == [slashName      |-> slashName,
              cliSyntax      |-> slashToCli(slashName),
              description    |-> trim(Or(Get(agent, k_icon), <<>>) \o <<" ">>
                                      \o Str(Or(Get(agent, k_displayName), name))
                                      \o <<" ", EmDash, " ">>
                                      \o Or(Get(agent, k_title), Or(Get(agent, k_role), c_Agent))),
              category       |-> "agent",
              module         |-> mod,
              filePath       |-> Or(Get(agent, k_path), <<>>),
              agentName      |-> name,
              agentTitle     |-> trim(Or(Get(agent, k_icon), <<>>) \o <<" ">>
                                      \o Or(Get(agent, k_title), <<>>)),
              pattern        |-> "agent-activator",
              promptFilePath |-> Undefined]
  IN  setIfAbsent(map, cmd)

registerTaskTool(entry, category, map) ==
  LET mod       == Or(Get(entry, k_module), c_core)
      name      == Get(entry, k_name)
      slashName == IF mod = c_core
                   THEN c_bmad \o <<"-">> \o Str(name)
                   ELSE c_bmad \o <<"-">> \o mod \o <<"-">> \o Str(name)
      cmd == [slashName      |-> slashName,
              cliSyntax      |-> slashToCli(slashName),
              description    |-> Or(Get(entry, k_description), Or(Get(entry, k_displayName), name)),
              category       |-> category,
              module         |-> mod,
              filePath       |-> Or(Get(entry, k_path), <<>>),
              agentName      |-> <<>>,
              agentTitle     |-> <<>>,
              pattern        |-> "task",
              promptFilePath |-> Undefined]
  IN  setIfAbsent(map, cmd)

\* for (const entry of entries) register(entry, map), for each manifest kind
RECURSIVE registerHelpEntries(_, _)
registerHelpEntries(entries, map) ==
  IF entries = <<>> THEN map
  ELSE registerHelpEntries(Tail(entries), registerHelpEntry(Head(entries), map))

RECURSIVE registerAgents(_, _)
registerAgents(agents, map) ==
  IF agents = <<>> THEN map
  ELSE registerAgents(Tail(agents), registerAgentActivator(Head(agents), map))

RECURSIVE registerTaskTools(_, _, _)
registerTaskTools(entries, category, map) ==
  IF entries = <<>> THEN map
  ELSE registerTaskTools(Tail(entries), category,
                         registerTaskTool(Head(entries), category, map))

\* scan, "Build command map": catalog rows, then agents, then tasks, then tools
buildCommands(helpEntries, agents, tasks, tools) ==
  registerTaskTools(tools, "tool",
    registerTaskTools(tasks, "task",
      registerAgents(agents,
        registerHelpEntries(helpEntries, <<>>))))

(***************************************************************************)
(* The link pass over .github/prompts and .github/agents.                  *)
(***************************************************************************)
\* path.join(dir, name) and path.dirname(p) on POSIX absolute paths
pathJoin(dir, name) == IF dir = <<"/">> THEN dir \o name ELSE dir \o <<"/">> \o name

dirname(p) ==
  LET slashes == {i \in 1..Len(p) : p[i] = "/"}
      last    == CHOOSE i \in slashes : \A j \in slashes : j <= i
  IN  IF slashes = {} THEN <<".">>
      ELSE IF last = 1 THEN <<"/">>
      ELSE SubSeq(p, 1, last - 1)

\* slashName.match(/^bmad-([^-]+)-agents-(.+)$/): the two groups, or no match
agentMatch(slashName) ==
  LET head == c_bmad \o <<"-">>
      rest == slice(slashName, Len(head))
      dashes == {i \in 1..Len(rest) : rest[i] = "-"}
      d    == CHOOSE i \in dashes : \A j \in dashes : i <= j
      tail == SubSeq(rest, d + Len(c_agentsInfix), Len(rest))
  IN  IF /\ startsWith(slashName, head)
         /\ dashes # {}
         /\ d > 1
         /\ startsWith(SubSeq(rest, d, Len(rest)), c_agentsInfix)
         /\ tail # <<>>
         /\ \A i \in 1..Len(tail) : tail[i] \notin {"\n", "\r"}
      THEN [matched |-> TRUE, module |-> SubSeq(rest, 1, d - 1), name |-> tail]
      ELSE [matched |-> FALSE, module |-> <<>>, name |-> <<>>]

\* cmd.promptFilePath = absPath on the record stored under key, if there is one
linkCommand(commands, key, absPath) ==
  IF mapHas(commands, key)
  THEN [commands EXCEPT ![mapIndex(commands, key)].val.promptFilePath = absPath]
  ELSE commands

\* the body of the loop over .github/prompts for one directory entry; acc
\* holds the promptFiles map, the command map and the local foundAny
promptsDirFile(acc, file, promptsDir) ==
  IF startsWith(file, c_bmad) /\ endsWith(file, c_promptExt)
  THEN LET slashName == SubSeq(file, 1, Len(file) - Len(c_promptExt))
           absPath   == pathJoin(promptsDir, file)
       IN  [promptFiles |-> mapSet(acc.promptFiles, slashName, absPath),
            commands    |-> linkCommand(acc.commands, slashName, absPath),
            foundAny    |-> TRUE]
  ELSE acc

\* the body of the loop over .github/agents for one directory entry
agentsDirFile(acc, file, agentsDir) ==
  IF startsWith(file, c_bmad) /\ endsWith(file, c_agentExt)
  THEN LET slashName == SubSeq(file, 1, Len(file) - Len(c_agentExt))
           absPath   == pathJoin(agentsDir, file)
           m         == agentMatch(slashName)
           agentSlash == c_bmad \o <<"-">> \o c_agent \o <<"-">> \o m.module
                           \o <<"-">> \o m.name
       IN  [promptFiles |-> mapSet(acc.promptFiles, slashName, absPath),
            commands    |-> IF m.matched
                            THEN linkCommand(acc.commands, agentSlash, absPath)
                            ELSE acc.commands,
            foundAny    |-> TRUE]
  ELSE acc

RECURSIVE promptsDirLoop(_, _, _)
promptsDirLoop(acc, files, promptsDir) ==
  IF files = <<>> THEN acc
  ELSE promptsDirLoop(promptsDirFile(acc, Head(files), promptsDir), Tail(files), promptsDir)

RECURSIVE agentsDirLoop(_, _, _)
agentsDirLoop(acc, files, agentsDir) ==
  IF files = <<>> THEN acc
  ELSE agentsDirLoop(agentsDirFile(acc, Head(files), agentsDir), Tail(files), agentsDir)

\* One directory of the link pass: existsSync, then try { readdirSync ... }
\* catch {}.  A listing is [exists, ok, names]; readdirSync throws when ok is
\* FALSE, before the loop has seen any entry.
scanPromptsDir(acc, promptsDir, listing) ==
  IF listing.exists /\ listing.ok
  THEN promptsDirLoop(acc, listing.names, promptsDir)
  ELSE acc

scanAgentsDir(acc, agentsDir, listing) ==
  IF listing.exists /\ listing.ok
  THEN agentsDirLoop(acc, listing.names, agentsDir)
  ELSE acc

\* scanCopilotPromptFiles, from the capture of this._state.promptFiles to the
\* value assigned to hasCopilotFiles
scanCopilotPromptFiles(workspaceRoot, promptFiles, commands, promptsListing, agentsListing) ==
  LET github == pathJoin(workspaceRoot, c_github)
      acc0   == [promptFiles |-> promptFiles, commands |-> commands, foundAny |-> FALSE]
      acc1   == scanPromptsDir(acc0, pathJoin(github, c_prompts), promptsListing)
  IN  scanAgentsDir(acc1, pathJoin(github, c_agents), agentsListing)

(***************************************************************************)
(* The file system the scans run against.                                  *)
(*                                                                         *)
(* disk.bmad[p], for the two _bmad locations p, is                         *)
(*   [exists, hasConfig, listing |-> [ok, entries], files],                *)
(* where files maps a manifest file name to [readable, text];              *)
(* disk.prompts and disk.agents are the listings [exists, ok, names] of    *)
(* /ws/.github/prompts and /ws/.github/agents.  No other path exists.      *)
(***************************************************************************)
wsRoot == <<"/","w","s">>
topRoot == <<"/">>
wsBmad == <<"/","w","s","/","_","b","m","a","d">>
topBmad == <<"/","_","b","m","a","d">>
helpCsv1 == <<"m","o","d","u","l","e",",","n","a","m","e",",","w","o","r","k","f","l","o","w","-","f","i","l","e",",","c","o","m","m","a","n","d",",","a","g","e","n","t","-","n","a","m","e",",","a","g","e","n","t","-","t","i","t","l","e",",","d","e","s","c","r","i","p","t","i","o","n","\n","b","m","m",",","P","R","D",",","x",".","m","d",",","b","m","a","d","-","b","m","m","-","p","r","d",",","p","m",",","P","M",",","C","r","e","a","t","e"," ","P","R","D","\n","b","m","m",",","W","D",",","w",".","x","m","l",",",",","t","w",",","T","W",",","W","r","i","t","e"," ","d","o","c","\n","b","m","m",",","P","M",",","p",".","y","a","m","l",",","b","m","a","d","-","a","g","e","n","t","-","b","m","m","-","p","m",",",",",",","C","a","t","a","l","o","g"," ","P","M","\n",",","H","e","l","p",",","h",".","m","d",",","b","m","a","d","-","h","e","l","p",",",",",",","\n">>
helpCsv2 == <<"m","o","d","u","l","e",",","n","a","m","e",",","w","o","r","k","f","l","o","w","-","f","i","l","e",",","c","o","m","m","a","n","d",",","a","g","e","n","t","-","n","a","m","e",",","a","g","e","n","t","-","t","i","t","l","e",",","d","e","s","c","r","i","p","t","i","o","n","\n","b","m","m",",","P","R","D",",","x",".","m","d",",","b","m","a","d","-","b","m","m","-","p","r","d",",","p","m",",","P","M",",","F","i","r","s","t","\n","b","m","m",",","P","R","D","2",",","y",".","y","m","l",",","b","m","a","d","-","b","m","m","-","p","r","d",",","p","m",",","P","M",",","S","e","c","o","n","d","\n","x",",","F","o","o",",","f",".","m","d",",","f","o","o",",",",",",","N","o"," ","p","r","e","f","i","x","\n">>
helpCsvTop == <<"m","o","d","u","l","e",",","c","o","m","m","a","n","d","\n","b","m","m",",","b","m","a","d","-","t","o","p","\n">>
agentCsv1 == <<"n","a","m","e",",","d","i","s","p","l","a","y","N","a","m","e",",","t","i","t","l","e",",","i","c","o","n",",","r","o","l","e",",","m","o","d","u","l","e",",","p","a","t","h","\n","p","m",",","P","a","i","g","e",",","P","M",",",",",",","b","m","m",",","a","/","p","m",".","m","d","\n","t","w",",",",",",",",","W","r","i","t","e","r",",","c","o","r","e",",","a","/","t","w",".","m","d","\n","p","m",",","O","t","h","e","r",",",",",",",",","b","m","m",",","a","/","p","m","2",".","m","d","\n">>
agentCsv2 == <<"n","a","m","e",",","d","i","s","p","l","a","y","N","a","m","e",",","t","i","t","l","e",",","i","c","o","n",",","r","o","l","e",",","m","o","d","u","l","e",",","p","a","t","h","\n","x",",",",",",",",",",","m","y","-","m","o","d",",","a","/","x",".","m","d","\n","t","e","c","h","-","w","r","i","t","e","r",",",",",",",",",",",",","a","/","t",".","m","d","\n">>
helpCsvOne == <<"m","o","d","u","l","e",",","n","a","m","e",",","w","o","r","k","f","l","o","w","-","f","i","l","e",",","c","o","m","m","a","n","d",",","a","g","e","n","t","-","n","a","m","e",",","a","g","e","n","t","-","t","i","t","l","e",",","d","e","s","c","r","i","p","t","i","o","n","\n","b","m","m",",","P","R","D",",","x",".","m","d",","," ","b","m","a","d","-","b","m","m","-","c","r","e","a","t","e","-","p","r","d"," ",",","p","m",",","P","M",",","C","r","e","a","t","e"," ","P","R","D","\n">>
helpCsvSame == <<"m","o","d","u","l","e",",","n","a","m","e",",","w","o","r","k","f","l","o","w","-","f","i","l","e",",","c","o","m","m","a","n","d",",","a","g","e","n","t","-","n","a","m","e",",","a","g","e","n","t","-","t","i","t","l","e",",","d","e","s","c","r","i","p","t","i","o","n","\n","b","m","m",",","P","M",",","s","t","e","p","s","/","p",".","m","d",",","b","m","a","d","-","a","g","e","n","t","-","b","m","m","-","p","m",",",",",",","C","a","t","a","l","o","g"," ","P","M","\n">>
agentCsvOne == <<"n","a","m","e",",","d","i","s","p","l","a","y","N","a","m","e",",","t","i","t","l","e",",","i","c","o","n",",","r","o","l","e",",","m","o","d","u","l","e",",","p","a","t","h","\n","p","m",",","P","a","i","g","e",",","P","M",",",",",",","b","m","m",",","y",".","m","d","\n">>
agentCsvDash == <<"n","a","m","e",",","d","i","s","p","l","a","y","N","a","m","e",",","t","i","t","l","e",",","i","c","o","n",",","r","o","l","e",",","m","o","d","u","l","e",",","p","a","t","h","\n","x",",",",",",",",",",","m","y","-","m","o","d",",","a","/","x",".","m","d","\n">>
helpCsvEdge == <<"m","o","d","u","l","e",",","n","a","m","e",",","w","o","r","k","f","l","o","w","-","f","i","l","e",",","c","o","m","m","a","n","d",",","a","g","e","n","t","-","n","a","m","e",",","a","g","e","n","t","-","t","i","t","l","e",",","d","e","s","c","r","i","p","t","i","o","n","\n","c","o","r","e",",","R","o","o","t",",","r",".","m","d",",","b","m","a","d",",",",",",","R","o","o","t","\n","b","m","m",",","Z","e","d",",","z",".","m","d",",","b","m","a","d","-","z","z","z",",",",",",","Z","e","d","\n">>
workflowCsv1 == <<"n","a","m","e",",","d","e","s","c","r","i","p","t","i","o","n",",","m","o","d","u","l","e",",","p","a","t","h","\n","p","r","d",",","C","r","e","a","t","e",",","b","m","m",",","w","/","p","r","d",".","m","d","\n">>
taskCsv1 == <<"n","a","m","e",",","d","i","s","p","l","a","y","N","a","m","e",",","d","e","s","c","r","i","p","t","i","o","n",",","m","o","d","u","l","e",",","p","a","t","h",",","s","t","a","n","d","a","l","o","n","e","\n","h","e","l","p",",","H","e","l","p",",","G","e","t"," ","h","e","l","p",",","c","o","r","e",",","t","/","h","e","l","p",".","x","m","l",",","t","r","u","e","\n","p","r","d",",",",",",","b","m","m",",","t","/","p","r","d",".","x","m","l",",","t","r","u","e","\n">>
taskCsv2 == <<"n","a","m","e",",","d","i","s","p","l","a","y","N","a","m","e",",","d","e","s","c","r","i","p","t","i","o","n",",","m","o","d","u","l","e",",","p","a","t","h",",","s","t","a","n","d","a","l","o","n","e","\n","i","n","d","e","x",",","I","n","d","e","x",",",",",",","t","/","i",".","x","m","l",",","f","a","l","s","e","\n">>
toolCsv1 == <<"n","a","m","e",",","d","i","s","p","l","a","y","N","a","m","e",",","d","e","s","c","r","i","p","t","i","o","n",",","m","o","d","u","l","e",",","p","a","t","h",",","s","t","a","n","d","a","l","o","n","e","\n","h","e","l","p",",","T","o","o","l","H","e","l","p",",",",","c","o","r","e",",","l","/","h","e","l","p",".","x","m","l",",","t","r","u","e","\n","s","h","a","r","d",",",",","S","h","a","r","d",",","b","m","m",",","l","/","s",".","x","m","l",",","t","r","u","e","\n">>
Kinds == {"help", "agent", "workflow", "task", "tool"}

\* path.join(configDir, '<kind file>') of scan
manifestName(kind) ==
  CASE kind = "help"     -> c_helpCsv
    [] kind = "agent"    -> c_agentCsv
    [] kind = "workflow" -> c_workflowCsv
    [] kind = "task"     -> c_taskCsv
    [] kind = "tool"     -> c_toolCsv

BmadPaths == {wsBmad, topBmad}

NoFile == [readable |-> FALSE, text |-> <<>>]

File(text) == [readable |-> TRUE, text |-> text]

NoListing == [exists |-> FALSE, ok |-> FALSE, names |-> <<>>]

BadListing == [exists |-> TRUE, ok |-> FALSE, names |-> <<>>]

Listing(names) == [exists |-> TRUE, ok |-> TRUE, names |-> names]

\* fs.existsSync(p)
existsSync(d, p) ==
  \/ \E b \in BmadPaths : p = b /\ d.bmad[b].exists
  \/ \E b \in BmadPaths : p = pathJoin(b, c_config) /\ d.bmad[b].exists /\ d.bmad[b].hasConfig
  \/ p = pathJoin(pathJoin(wsRoot, c_github), c_prompts) /\ d.prompts.exists
  \/ p = pathJoin(pathJoin(wsRoot, c_github), c_agents) /\ d.agents.exists

\* fs.promises.readFile(p, 'utf8'): [ok, text], not ok when the read rejects
readFile(d, p) ==
  LET hits == {<<b, k>> \in BmadPaths \X Kinds :
                 /\ p = pathJoin(pathJoin(b, c_config), manifestName(k))
                 /\ d.bmad[b].exists /\ d.bmad[b].hasConfig
                 /\ d.bmad[b].files[k].readable}
  IN  IF hits = {} THEN [ok |-> FALSE, text |-> <<>>]
      ELSE LET h == CHOOSE x \in hits : TRUE
           IN  [ok |-> TRUE, text |-> d.bmad[h[1]].files[h[2]].text]

\* fs.readdirSync(p): the listing of a .github directory
readdirSync(d, p) ==
  IF p = pathJoin(pathJoin(wsRoot, c_github), c_prompts) THEN d.prompts
  ELSE IF p = pathJoin(pathJoin(wsRoot, c_github), c_agents) THEN d.agents
  ELSE NoListing

\* (a variant that does not walk up to the parent directory)
findBmadDirNoParent(d, startDir) ==
  LET candidate == pathJoin(startDir, c__bmad)
  IN  IF existsSync(d, candidate) THEN candidate ELSE Undefined

\* findBmadDir(startDir): the path, or Undefined for null
findBmadDir(d, startDir) ==
  LET candidate == pathJoin(startDir, c__bmad)
      parent    == dirname(startDir)
      parentCandidate == pathJoin(parent, c__bmad)
  IN  IF existsSync(d, candidate) THEN candidate
      ELSE IF parent # startDir /\ existsSync(d, parentCandidate) THEN parentCandidate
      ELSE Undefined

\* (a variant without the try/catch: a rejected read rejects loadCsv)
loadCsvNoCatch(d, filePath) ==
  LET content == readFile(d, filePath)
  IN  IF content.ok THEN [ok |-> TRUE, rows |-> parseCsv(content.text)]
      ELSE [ok |-> FALSE, rows |-> <<>>]

\* loadCsv(filePath): [ok, rows]; the catch turns a rejected read into no rows,
\* so the result is always ok
loadCsv(d, filePath) ==
  LET content == readFile(d, filePath)
  IN  IF content.ok THEN [ok |-> TRUE, rows |-> parseCsv(content.text)]
      ELSE [ok |-> TRUE, rows |-> <<>>]

\* detectModules(bmadDir): readdirSync with file types, filtered; [] on failure
detectModules(d, bmadDir) ==
  IF bmadDir \in BmadPaths /\ d.bmad[bmadDir].exists /\ d.bmad[bmadDir].listing.ok
  THEN LET es == d.bmad[bmadDir].listing.entries
           kept == SelectSeqIdx(es, {i \in 1..Len(es) :
                     /\ es[i].isDirectory
                     /\ es[i].name # c_config
                     /\ es[i].name # c_memory
                     /\ es[i].name # c_docs
                     /\ ~startsWith(es[i].name, <<".">>)})
       IN  [i \in 1..Len(kept) |-> kept[i].name]
  ELSE <<>>

(***************************************************************************)
(* File systems the scans are run against.                                 *)
(***************************************************************************)
Dir(name) == [name |-> name, isDirectory |-> TRUE]

Plain(name) == [name |-> name, isDirectory |-> FALSE]

\* the entries of _bmad: _config, _memory, docs, .git, bmm, core and README.md
StdEntries == <<Dir(c_config), Dir(c_memory), Dir(c_docs), Dir(<<".","g","i","t">>), Dir(<<"b","m","m">>),
                Dir(c_core), Plain(<<"R","E","A","D","M","E",".","m","d">>)>>

Files(h, a, w, t, l) ==
  [k \in Kinds |-> CASE k = "help" -> h [] k = "agent" -> a [] k = "workflow" -> w
                     [] k = "task" -> t [] k = "tool" -> l]

NoFiles == Files(NoFile, NoFile, NoFile, NoFile, NoFile)

StdFiles == Files(File(helpCsv1), File(agentCsv1), File(workflowCsv1), File(taskCsv1),
                  File(toolCsv1))

LocAbsent == [exists |-> FALSE, hasConfig |-> FALSE,
              listing |-> [ok |-> FALSE, entries |-> <<>>], files |-> NoFiles]

\* a _bmad directory without the _config sub-directory
LocBare == [exists |-> TRUE, hasConfig |-> FALSE,
            listing |-> [ok |-> TRUE, entries |-> <<Dir(<<"b","m","m">>)>>], files |-> NoFiles]

LocFull(files, listOk) ==
  [exists |-> TRUE, hasConfig |-> TRUE,
   listing |-> [ok |-> listOk, entries |-> IF listOk THEN StdEntries ELSE <<>>],
   files |-> files]

TopFull == [exists |-> TRUE, hasConfig |-> TRUE,
            listing |-> [ok |-> TRUE, entries |-> <<Dir(c_config)>>],
            files |-> Files(File(helpCsvTop), NoFile, NoFile, NoFile, NoFile)]

Disk(wsLoc, topLoc, prompts, agents) ==
  [bmad |-> [b \in BmadPaths |-> IF b = wsBmad THEN wsLoc ELSE topLoc],
   prompts |-> prompts, agents |-> agents]

\* .github/prompts with README.md, bmad-bmm-prd.prompt.md, bmad-zzz.prompt.md and
\* bmad-agent-bmm-pm.prompt.md
PromptsA == Listing(<<<<"R","E","A","D","M","E",".","m","d">>, <<"b","m","a","d","-","b","m","m","-","p","r","d",".","p","r","o","m","p","t",".","m","d">>, <<"b","m","a","d","-","z","z","z",".","p","r","o","m","p","t",".","m","d">>, <<"b","m","a","d","-","a","g","e","n","t","-","b","m","m","-","p","m",".","p","r","o","m","p","t",".","m","d">>>>)

\* .github/agents with bmad-bmm-agents-pm.agent.md, bmad-core-agents-tw.agent.md
\* and bmad-my-mod-agents-x.agent.md
AgentsA == Listing(<<<<"b","m","a","d","-","b","m","m","-","a","g","e","n","t","s","-","p","m",".","a","g","e","n","t",".","m","d">>, <<"b","m","a","d","-","c","o","r","e","-","a","g","e","n","t","s","-","t","w",".","a","g","e","n","t",".","m","d">>, <<"b","m","a","d","-","m","y","-","m","o","d","-","a","g","e","n","t","s","-","x",".","a","g","e","n","t",".","m","d">>>>)

\* .github/agents with bmad-zzz.agent.md and notes.txt
AgentsB == Listing(<<<<"b","m","a","d","-","z","z","z",".","a","g","e","n","t",".","m","d">>, <<"n","o","t","e","s",".","t","x","t">>>>)

OtherFiles == Files(File(helpCsv2), File(agentCsv2), NoFile, File(taskCsv2), NoFile)

\* every combination of the manifest files that feed the command map
ManifestDisks ==
  {Disk(LocFull(Files(h, a, File(workflowCsv1), t, l), TRUE), LocAbsent, PromptsA, AgentsA) :
     h \in {NoFile, File(helpCsv1), File(helpCsv2)},
     a \in {NoFile, File(agentCsv1), File(agentCsv2)},
     t \in {NoFile, File(taskCsv1), File(taskCsv2)},
     l \in {NoFile, File(toolCsv1)}}

\* every combination of the two .github directories
LinkDisks ==
  {Disk(LocFull(f, TRUE), LocAbsent, p, g) :
     f \in {StdFiles, OtherFiles},
     p \in {NoListing, BadListing, PromptsA},
     g \in {NoListing, BadListing, AgentsA, AgentsB}}

\* every combination of the two _bmad locations
LocationDisks ==
  {Disk(wsLoc, topLoc, PromptsA, AgentsA) :
     wsLoc \in {LocAbsent, LocBare, LocFull(StdFiles, TRUE), LocFull(StdFiles, FALSE)},
     topLoc \in {LocAbsent, LocBare, TopFull}}

\* installations with one catalog row and one agent row only
ScenarioDisks ==
  {Disk(LocFull(Files(File(h), File(g), NoFile, NoFile, NoFile), TRUE), LocAbsent,
        PromptsA, NoListing) :
     h \in {helpCsvOne, helpCsvSame}, g \in {agentCsvOne, agentCsvDash}}

\* installations whose catalog has the commands bmad and bmad-zzz
EdgeDisks ==
  {Disk(LocFull(Files(File(helpCsvEdge), NoFile, NoFile, NoFile, NoFile), TRUE), LocAbsent,
        PromptsA, g) : g \in {AgentsA, AgentsB}}

\* a comment line at the head of a manifest
commentLine == <<"#"," ","c","a","t","a","l","o","g","\n">>

\* installations whose catalog begins with a byte-order mark, with a comment
\* line, or with both
BomDisks ==
  {Disk(LocFull(Files(File(h), NoFile, NoFile, NoFile, NoFile), TRUE), LocAbsent,
        NoListing, NoListing) :
     h \in {<<BOM>> \o helpCsvOne, commentLine \o helpCsvOne,
            <<BOM>> \o commentLine \o helpCsvOne}}

ScanDisks ==
  ManifestDisks \cup LinkDisks \cup LocationDisks \cup ScenarioDisks \cup EdgeDisks
    \cup BomDisks

\* the file systems of the runs with overlapping scans: an installation, the
\* same installation after an edit of the catalog and of .github, and a
\* workspace whose _bmad has lost its _config
DiskOne == Disk(LocFull(Files(File(helpCsv1), File(agentCsv1), NoFile, NoFile, NoFile),
                        TRUE),
                LocAbsent, Listing(<<<<"b","m","a","d","-","b","m","m","-","p","r","d",".","p","r","o","m","p","t",".","m","d">>>>), NoListing)

DiskTwo == Disk(LocFull(Files(File(helpCsv2), File(agentCsv1), NoFile, NoFile, NoFile),
                        TRUE),
                LocAbsent, Listing(<<<<"b","m","a","d","-","z","z","z",".","p","r","o","m","p","t",".","m","d">>, <<"b","m","a","d","-","a","g","e","n","t","-","b","m","m","-","p","m",".","p","r","o","m","p","t",".","m","d">>>>), Listing(<<<<"b","m","a","d","-","b","m","m","-","a","g","e","n","t","s","-","p","m",".","a","g","e","n","t",".","m","d">>>>))

DiskBare == Disk(LocBare, LocAbsent, Listing(<<<<"b","m","a","d","-","b","m","m","-","p","r","d",".","p","r","o","m","p","t",".","m","d">>>>), NoListing)

RaceDisks == {DiskOne, DiskTwo, DiskBare}

\* arguments of scan
Roots == {wsRoot, topRoot}

Overrides == {Undefined, wsBmad, topBmad}

\* number of file system changes during a run
MaxFsChanges == 1

(***************************************************************************)
(* The registry and the scan calls.                                        *)
(***************************************************************************)
ScanIds == {"A", "B"}

None == "none"

NullRef == "null"

VARIABLES
  disk,        \* the file system
  fsChanges,   \* how many times it changed
  clock,       \* the time source behind lastScan
  snap,        \* the RegistryState object allocated by each scan call
  _state,      \* CommandRegistry._state: NullRef or the scan whose object it is
  running,     \* the scan call that holds the thread between two awaits
  pc,          \* where each scan call is
  args,        \* its arguments [root, override]
  bmadDir,     \* its local bmadDir
  pending,     \* the loadCsv calls it still waits for
  loaded,      \* the results of those that returned
  ret,         \* what the call returned: "pending", "null", "threw" or a ref
  seen,        \* the .github listings its link pass read
  finished,    \* the scan calls that returned a snapshot, in order of return
  overlapped,  \* whether a scan call started while another one was reading
  input,       \* the argument handed to a pure function under test
  out          \* the calls of read-only operations made so far, with their results

(***************************************************************************)
(* The state of the editor extension: the debounce timers, the command     *)
(* that runs a story in a terminal, the file watchers and the two tree     *)
(* providers.                                                              *)
(***************************************************************************)
\* the debounced components: the two tree providers and the file-change
\* rescan of the Copilot adapter
Providers == {"epic", "techSpec"}

Components == Providers \cup {"copilot"}

VARIABLES
  comp,        \* the component whose triggers a run of the debounce observes
  now,         \* the time, in milliseconds
  timer,       \* refreshTimeout of each provider, scanTimer of the adapter
  triggers,    \* the times of the calls of refresh() / debouncedScan()
  fired,       \* the times at which the timer callback ran
  disposals    \* the dispose() calls of each provider: [at, after], the time and
               \* the number of refresh() calls made before it

debounceVars == <<comp, now, timer, triggers, fired, disposals>>

VARIABLES
  workspaceFolder,  \* vscode.workspace.workspaceFolders?.[0]?.uri.fsPath
  cliToolSetting,   \* the bmad.cliTool setting
  cliChecked,       \* the module variables of extension.ts
  cliAvailable,
  terminals,        \* vscode.window.terminals: the names, in order of creation
  sent,             \* the sendText calls: [terminal, text]
  messages,         \* the showErrorMessage / showWarningMessage calls
  invocations,      \* the executeInTerminal calls: position and locals
  history           \* invocations past the two guards, checks and resets, in order

terminalVars == <<workspaceFolder, cliToolSetting, cliChecked, cliAvailable, terminals,
                  sent, messages, invocations, history>>

VARIABLES
  watchers,         \* every FileSystemWatcher created: [of, disposed]
  watcher,          \* the three variables of activate: an index of watchers, 0
  techSpecWatcher,  \* for undefined
  configWatcher,
  creating,         \* the createTechSpecWatcher calls waiting at their await
  events            \* the number of configuration events so far

watcherVars == <<watchers, watcher, techSpecWatcher, configWatcher, creating, events>>

VARIABLES
  found,            \* what workspace.findFiles answers: the files, [path, readable]
  parsedFiles,      \* the fields of each tree provider
  isLoading,
  pendingRefresh,   \* (EpicTreeProvider only)
  children,         \* the root-level getChildren calls: position and locals
  loads,            \* per provider, the loads started and finished so far
  asked             \* per provider, whether a load was asked for during the load in progress

treeVars == <<found, parsedFiles, isLoading, pendingRefresh, children, loads, asked>>

uiVars == <<debounceVars, terminalVars, watcherVars, treeVars>>

\* the variables of the registry and of the runs of its pure functions
registryVars == <<disk, fsChanges, clock, snap, _state, running, pc, args, bmadDir,
                  pending, loaded, ret, seen, finished, overlapped, input, out>>

vars == <<registryVars, uiVars>>

\* the timers of a component: `handle` is the variable that holds the handle
\* of setTimeout (0 for undefined), `pending` the timers whose callback is
\* still to run, each with its handle and the time it is due
NoTimer == [handle |-> 0, pending |-> {}]

InitDebounceVars(c) ==
  /\ comp = c
  /\ now = 0
  /\ timer = [x \in Components |-> NoTimer]
  /\ triggers = [x \in Components |-> <<>>]
  /\ fired = [x \in Components |-> <<>>]
  /\ disposals = [x \in Components |-> <<>>]

\* the executeInTerminal calls of a run, numbered in the order they are made
Invocations == {1, 2, 3}

NoInvocation == [pc |-> "idle", cliTool |-> <<>>, folder |-> Undefined,
                 storyNumber |-> Undefined, workflow |-> <<>>]

InitTerminalVars(folder, tool) ==
  /\ workspaceFolder = folder
  /\ cliToolSetting = tool
  /\ cliChecked = FALSE
  /\ cliAvailable = TRUE
  /\ terminals = <<>>
  /\ sent = <<>>
  /\ messages = <<>>
  /\ invocations = [i \in Invocations |-> NoInvocation]
  /\ history = <<>>

\* after activate(): createWatcher and createConfigWatcher have run, the
\* first createTechSpecWatcher call waits at its await
InitWatcherVars ==
  /\ watchers = <<[of |-> "epic", disposed |-> FALSE], [of |-> "config", disposed |-> FALSE]>>
  /\ watcher = 1
  /\ techSpecWatcher = 0
  /\ configWatcher = 2
  /\ creating = 1
  /\ events = 0

\* the root-level getChildren calls of a run
Calls == {1, 2, 3}

NoCall == [provider |-> "epic", pc |-> "idle", files |-> <<>>, next |-> 0,
           ran |-> 0, result |-> <<>>]

InitTreeVars(files) ==
  /\ found = files
  /\ parsedFiles = [p \in Providers |-> <<>>]
  /\ isLoading = [p \in Providers |-> FALSE]
  /\ pendingRefresh = FALSE
  /\ children = [c \in Calls |-> NoCall]
  /\ loads = [p \in Providers |-> [started |-> 0, finished |-> 0]]
  /\ asked = [p \in Providers |-> FALSE]

\* the extension at rest, for the runs that are about the registry alone
InitUi ==
  /\ InitDebounceVars("epic")
  /\ InitTerminalVars(Undefined, Undefined)
  /\ InitWatcherVars
  /\ InitTreeVars(<<>>)


NoSnap == [alloc |-> FALSE]

NoArgs == [root |-> <<>>, override |-> Undefined]

NoSeen == [prompts |-> NoListing, agents |-> NoListing]

InitRegistry ==
  /\ fsChanges = 0
  /\ clock = 0
  /\ snap = [s \in ScanIds |-> NoSnap]
  /\ _state = NullRef
  /\ running = None
  /\ pc = [s \in ScanIds |-> "idle"]
  /\ args = [s \in ScanIds |-> NoArgs]
  /\ bmadDir = [s \in ScanIds |-> <<>>]
  /\ pending = [s \in ScanIds |-> {}]
  /\ loaded = [s \in ScanIds |-> [k \in Kinds |-> <<>>]]
  /\ ret = [s \in ScanIds |-> "pending"]
  /\ seen = [s \in ScanIds |-> NoSeen]
  /\ finished = <<>>
  /\ overlapped = FALSE
  /\ out = <<>>

\* (a variant that resets this._state when no installation is found)
ScanCallClearing(s, workspaceRoot, overrideBmadDir) ==
  /\ pc[s] = "idle"
  /\ running = None
  /\ LET dir == Or(overrideBmadDir, findBmadDir(disk, workspaceRoot))
     IN  IF ~Truthy(dir) \/ ~existsSync(disk, pathJoin(dir, c_config))
         THEN /\ pc' = [pc EXCEPT ![s] = "done"]
              /\ ret' = [ret EXCEPT ![s] = "null"]
              /\ _state' = NullRef
              /\ UNCHANGED <<bmadDir, pending, overlapped>>
         ELSE /\ pc' = [pc EXCEPT ![s] = "reading"]
              /\ bmadDir' = [bmadDir EXCEPT ![s] = dir]
              /\ pending' = [pending EXCEPT ![s] = Kinds]
              /\ overlapped' = (overlapped \/ \E o \in ScanIds \ {s} : pc[o] = "reading")
              /\ _state' = _state
              /\ ret' = ret
  /\ args' = [args EXCEPT ![s] = [root |-> workspaceRoot, override |-> overrideBmadDir]]
  /\ UNCHANGED <<uiVars, input, out, disk, fsChanges, clock, snap, running, loaded, seen, finished>>

\* scan, lines up to the await: resolve the directory, return null or start
\* the five loadCsv calls
scan(s, workspaceRoot, overrideBmadDir) ==
  /\ pc[s] = "idle"
  /\ running = None
  /\ LET dir == Or(overrideBmadDir, findBmadDir(disk, workspaceRoot))
     IN  IF ~Truthy(dir) \/ ~existsSync(disk, pathJoin(dir, c_config))
         THEN /\ pc' = [pc EXCEPT ![s] = "done"]
              /\ ret' = [ret EXCEPT ![s] = "null"]
              /\ UNCHANGED <<bmadDir, pending, overlapped>>
         ELSE /\ pc' = [pc EXCEPT ![s] = "reading"]
              /\ bmadDir' = [bmadDir EXCEPT ![s] = dir]
              /\ pending' = [pending EXCEPT ![s] = Kinds]
              /\ overlapped' = (overlapped \/ \E o \in ScanIds \ {s} : pc[o] = "reading")
              /\ ret' = ret
  /\ args' = [args EXCEPT ![s] = [root |-> workspaceRoot, override |-> overrideBmadDir]]
  /\ UNCHANGED <<input, out, disk, fsChanges, clock, snap, _state, running, loaded, seen, finished>>

\* a call of registry.scan
ScanCall(s, workspaceRoot, overrideBmadDir) ==
  /\ scan(s, workspaceRoot, overrideBmadDir)
  /\ UNCHANGED uiVars

\* (a variant with a retry loop: when a read fails, the five reads are
\* started again)
LoadCsvRetry(s, kind) ==
  /\ pc[s] = "reading"
  /\ running = None
  /\ kind \in pending[s]
  /\ LET path == pathJoin(pathJoin(bmadDir[s], c_config), manifestName(kind))
         r == loadCsv(disk, path)
     IN  IF readFile(disk, path).ok
         THEN /\ loaded' = [loaded EXCEPT ![s][kind] = r.rows]
              /\ pending' = [pending EXCEPT ![s] = @ \ {kind}]
         ELSE /\ loaded' = [loaded EXCEPT ![s] = [k \in Kinds |-> <<>>]]
              /\ pending' = [pending EXCEPT ![s] = Kinds]
  /\ UNCHANGED <<uiVars, input, out, disk, fsChanges, clock, snap, _state, running, pc, ret, args, bmadDir, seen,
                 finished, overlapped>>

\* one loadCsv call returns; a rejected one rejects the Promise.all and with
\* it the scan
LoadCsvDone(s, kind) ==
  /\ pc[s] = "reading"
  /\ running = None
  /\ kind \in pending[s]
  /\ LET r == loadCsv(disk, pathJoin(pathJoin(bmadDir[s], c_config), manifestName(kind)))
     IN  IF r.ok
         THEN /\ loaded' = [loaded EXCEPT ![s][kind] = r.rows]
              /\ pending' = [pending EXCEPT ![s] = @ \ {kind}]
              /\ UNCHANGED <<pc, ret>>
         ELSE /\ pc' = [pc EXCEPT ![s] = "done"]
              /\ ret' = [ret EXCEPT ![s] = "threw"]
              /\ UNCHANGED <<loaded, pending>>
  /\ UNCHANGED <<uiVars, input, out, disk, fsChanges, clock, snap, _state, running, args, bmadDir, seen, finished,
                 overlapped>>

\* scan, "Build command map": a new Map filled from the four row sets
newCommandMap(s) ==
  buildCommands(loaded[s]["help"], loaded[s]["agent"], loaded[s]["task"], loaded[s]["tool"])

\* the object literal assigned to this._state
newState(s, commands) ==
  [alloc           |-> TRUE,
   bmadDir         |-> bmadDir[s],
   commands        |-> commands,
   helpEntries     |-> loaded[s]["help"],
   agents          |-> loaded[s]["agent"],
   workflows       |-> loaded[s]["workflow"],
   tasks           |-> loaded[s]["task"],
   tools           |-> loaded[s]["tool"],
   modules         |-> detectModules(disk, bmadDir[s]),
   promptFiles     |-> <<>>,
   hasCopilotFiles |-> FALSE,
   lastScan        |-> clock]

\* (a variant that gives up the thread between the assignment and the link
\* pass, as an awaited link pass would)
ScanBuildYield(s) ==
  /\ pc[s] = "reading"
  /\ pending[s] = {}
  /\ running = None
  /\ snap' = [snap EXCEPT ![s] = newState(s, newCommandMap(s))]
  /\ _state' = s
  /\ clock' = clock + 1
  /\ running' = None
  /\ pc' = [pc EXCEPT ![s] = "link"]
  /\ UNCHANGED <<uiVars, input, out, disk, fsChanges, args, bmadDir, pending, loaded, ret, seen, finished,
                 overlapped>>

\* (a variant that registers into the entries of the current snapshot's map
\* instead of a new Map)
ScanBuildReuse(s) ==
  /\ pc[s] = "reading"
  /\ pending[s] = {}
  /\ running = None
  /\ LET old   == IF _state = NullRef THEN <<>> ELSE snap[_state].commands
         fresh == newCommandMap(s)
         added == SelectSeqIdx(fresh, {i \in 1..Len(fresh) : ~mapHas(old, fresh[i].key)})
     IN  snap' = [snap EXCEPT ![s] = newState(s, old \o added)]
  /\ _state' = s
  /\ clock' = clock + 1
  /\ running' = s
  /\ pc' = [pc EXCEPT ![s] = "link"]
  /\ UNCHANGED <<uiVars, input, out, disk, fsChanges, args, bmadDir, pending, loaded, ret, seen, finished,
                 overlapped>>

\* scan after the await: detect the modules, build the command map and
\* assign the new RegistryState to this._state
ScanBuild(s) ==
  /\ pc[s] = "reading"
  /\ pending[s] = {}
  /\ running = None
  /\ snap' = [snap EXCEPT ![s] = newState(s, newCommandMap(s))]
  /\ _state' = s
  /\ clock' = clock + 1
  /\ running' = s
  /\ pc' = [pc EXCEPT ![s] = "link"]
  /\ UNCHANGED <<uiVars, input, out, disk, fsChanges, args, bmadDir, pending, loaded, ret, seen, finished,
                 overlapped>>

\* (a variant in which the promptFiles Map is carried over from the snapshot
\* before, so that the link pass also writes into that older snapshot)
ScanLinkShared(s) ==
  /\ pc[s] = "link"
  /\ running \in {None, s}
  /\ LET github  == pathJoin(args[s].root, c_github)
         prompts == readdirSync(disk, pathJoin(github, c_prompts))
         agents  == readdirSync(disk, pathJoin(github, c_agents))
     IN  /\ seen' = [seen EXCEPT ![s] = [prompts |-> prompts, agents |-> agents]]
         /\ IF _state = NullRef
            THEN snap' = snap
            ELSE LET r == scanCopilotPromptFiles(args[s].root, snap[_state].promptFiles,
                                                 snap[s].commands, prompts, agents)
                     linked == [snap EXCEPT ![s].commands = r.commands]
                     own == [linked EXCEPT ![_state].promptFiles = r.promptFiles,
                                           ![_state].hasCopilotFiles = r.foundAny]
                 IN  snap' = [o \in ScanIds |->
                                IF o # _state /\ own[o].alloc
                                THEN [own[o] EXCEPT !.promptFiles = r.promptFiles]
                                ELSE own[o]]
  /\ ret' = [ret EXCEPT ![s] = _state]
  /\ finished' = Append(finished, s)
  /\ running' = None
  /\ pc' = [pc EXCEPT ![s] = "done"]
  /\ UNCHANGED <<uiVars, input, out, disk, fsChanges, clock, _state, args, bmadDir, pending, loaded, overlapped>>

\* scan, the call of scanCopilotPromptFiles and the return: the link pass
\* writes into the promptFiles map of this._state and into the records of the
\* command map the scan built
ScanLink(s) ==
  /\ pc[s] = "link"
  /\ running \in {None, s}
  /\ LET github  == pathJoin(args[s].root, c_github)
         prompts == readdirSync(disk, pathJoin(github, c_prompts))
         agents  == readdirSync(disk, pathJoin(github, c_agents))
     IN  /\ seen' = [seen EXCEPT ![s] = [prompts |-> prompts, agents |-> agents]]
         /\ IF _state = NullRef
            THEN snap' = snap
            ELSE LET r == scanCopilotPromptFiles(args[s].root, snap[_state].promptFiles,
                                                 snap[s].commands, prompts, agents)
                     linked == [snap EXCEPT ![s].commands = r.commands]
                 IN  snap' = [linked EXCEPT ![_state].promptFiles = r.promptFiles,
                                            ![_state].hasCopilotFiles = r.foundAny]
  /\ ret' = [ret EXCEPT ![s] = _state]
  /\ finished' = Append(finished, s)
  /\ running' = None
  /\ pc' = [pc EXCEPT ![s] = "done"]
  /\ UNCHANGED <<uiVars, input, out, disk, fsChanges, clock, _state, args, bmadDir, pending, loaded, overlapped>>

\* the workspace changes on disk
FsChange(d) ==
  /\ fsChanges < MaxFsChanges
  /\ d # disk
  /\ disk' = d
  /\ fsChanges' = fsChanges + 1
  /\ UNCHANGED <<uiVars, input, out, clock, snap, _state, running, pc, args, bmadDir, pending, loaded, ret,
                 seen, finished, overlapped>>

(***************************************************************************)
(* Spec: two scan calls on one registry, overlapping or one after the      *)
(* other, while the workspace changes.                                     *)
(***************************************************************************)
Init == InitRegistry /\ InitUi /\ input = <<>> /\ disk \in RaceDisks

Next ==
  \/ \E s \in ScanIds : ScanCall(s, wsRoot, Undefined)
  \/ \E s \in ScanIds, k \in Kinds : LoadCsvDone(s, k)
  \/ \E s \in ScanIds : ScanBuild(s)
  \/ \E s \in ScanIds : ScanLink(s)
  \/ \E d \in RaceDisks : FsChange(d)

Spec == Init /\ [][Next]_vars

\* what the steps LoadCsvDone, ScanBuild and ScanLink of the scan call s do
\* to its position: one of the reads it waits for returns, the continuation
\* after the await runs, the link pass runs and the call returns
ScanAdvances(s) ==
  \/ /\ pc[s] = "reading"
     /\ running = None
     /\ \/ \E k \in pending[s] : pending' = [pending EXCEPT ![s] = @ \ {k}] /\ pc' = pc
        \/ pending[s] = {} /\ pc' = [pc EXCEPT ![s] = "link"] /\ pending' = pending
  \/ /\ pc[s] = "link"
     /\ running \in {None, s}
     /\ pc' = [pc EXCEPT ![s] = "done"]
     /\ pending' = pending

\* the steps of the scan call s themselves
ScanProgress(s) ==
  \/ \E k \in Kinds : LoadCsvDone(s, k)
  \/ ScanBuild(s)
  \/ ScanLink(s)

\* a step advances the position of the scan call s as ScanAdvances says
\* exactly when it is one of the steps of that call
ScanAdvancesIsScanProgress ==
  [][\A s \in ScanIds : ScanProgress(s) <=> ScanAdvances(s)]_vars

(***************************************************************************)
(* SpecFair: Spec, where every file read and every directory listing of a  *)
(* started scan call returns and the event loop runs its continuation.     *)
(***************************************************************************)
SpecFair == Init /\ [][Next]_vars /\ \A s \in ScanIds : WF_<<pc, pending>>(ScanAdvances(s))

(***************************************************************************)
(* SpecScan: one scan call, with any arguments, on any of the file systems *)
(* of ScanDisks.                                                           *)
(***************************************************************************)
InitScan == InitRegistry /\ InitUi /\ input = <<>> /\ disk \in ScanDisks

NextScan ==
  \/ \E root \in Roots, override \in Overrides : ScanCall("A", root, override)
  \/ \E k \in Kinds : LoadCsvDone("A", k)
  \/ ScanBuild("A")
  \/ ScanLink("A")

SpecScan == InitScan /\ [][NextScan]_vars

(***************************************************************************)
(* The read-only operations of the registry: resolve and search.           *)
(***************************************************************************)
UpperCase == <<"A","B","C","D","E","F","G","H","I","J","K","L","M",
               "N","O","P","Q","R","S","T","U","V","W","X","Y","Z">>

LowerCase == <<"a","b","c","d","e","f","g","h","i","j","k","l","m",
               "n","o","p","q","r","s","t","u","v","w","x","y","z">>

\* s.toLowerCase()
toLowerCase(s) ==
  [i \in 1..Len(s) |->
     IF \E k \in 1..26 : UpperCase[k] = s[i]
     THEN LowerCase[CHOOSE k \in 1..26 : UpperCase[k] = s[i]]
     ELSE s[i]]

\* s.includes(q)
includes(s, q) == \E i \in 0..(Len(s) - Len(q)) : SubSeq(s, i + 1, i + Len(q)) = q

\* this._state?.commands as a map; `absent` when _state is null
stateCommands ==
  IF _state = NullRef THEN [absent |-> TRUE, map |-> <<>>]
  ELSE [absent |-> FALSE, map |-> snap[_state].commands]

\* (a variant that looks the name up as given)
resolveNoSlash(slashName) ==
  LET cs == stateCommands
  IN  IF ~cs.absent /\ mapHas(cs.map, slashName)
      THEN [found |-> TRUE, cmd |-> mapGet(cs.map, slashName)]
      ELSE [found |-> FALSE]

\* resolve(slashName): [found, cmd]; not found stands for undefined
resolve(slashName) ==
  LET key == IF startsWith(slashName, <<"/">>) THEN slice(slashName, 1) ELSE slashName
      cs  == stateCommands
  IN  IF ~cs.absent /\ mapHas(cs.map, key)
      THEN [found |-> TRUE, cmd |-> mapGet(cs.map, key)]
      ELSE [found |-> FALSE]

\* (a variant of the test that looks at the slashName only)
searchMatchesSlashNameOnly(cmd, q) == includes(toLowerCase(cmd.slashName), q)

\* the test of the loop of search: q is the lowered query
searchMatches(cmd, q) ==
  includes(toLowerCase(cmd.slashName), q) \/ includes(toLowerCase(cmd.description), q)

\* the loop of search over commands.values(), from the i-th value on
RECURSIVE searchLoop(_, _, _, _, _)
searchLoop(map, q, limit, i, results) ==
  IF i > Len(map) THEN results
  ELSE LET cmd  == map[i].val
           next == IF searchMatches(cmd, q) THEN Append(results, cmd) ELSE results
       IN  IF Len(next) >= limit THEN next
           ELSE searchLoop(map, q, limit, i + 1, next)

\* search(query, limit)
search(query, limit) ==
  IF _state = NullRef THEN <<>>
  ELSE searchLoop(snap[_state].commands, toLowerCase(query), limit, 1, <<>>)

\* the default of the parameter `limit` of search
DefaultLimit == 20

\* the registry's methods run between two tasks; they read and return
Resolve(slashName) ==
  /\ running = None
  /\ out' = <<[op |-> "resolve", arg |-> slashName, result |-> resolve(slashName)]>>
  /\ UNCHANGED <<uiVars, disk, fsChanges, clock, snap, _state, running, pc, args, bmadDir, pending,
                 loaded, ret, seen, finished, overlapped, input>>

Search(query, limit) ==
  /\ running = None
  /\ out' = <<[op |-> "search", arg |-> query, limit |-> limit,
               result |-> search(query, limit)]>>
  /\ UNCHANGED <<uiVars, disk, fsChanges, clock, snap, _state, running, pc, args, bmadDir, pending,
                 loaded, ret, seen, finished, overlapped, input>>

SearchDefaultLimit(query) == Search(query, DefaultLimit)

(***************************************************************************)
(* SpecQuery: one scan call and, between its steps, any number of calls of *)
(* resolve and search.                                                     *)
(***************************************************************************)
\* the queries: the empty one, PRD, pm, R, zzz and bmad
Queries == {<<>>, <<"P","R","D">>, <<"p","m">>, <<"R">>, <<"z","z","z">>, <<"b","m","a","d">>}

Limits == {0, 1, 2, 5}

\* the names: bmad-bmm-prd, /bmad-bmm-prd, //bmad-bmm-prd, /nope, / and the
\* empty one
Names == {<<"b","m","a","d","-","b","m","m","-","p","r","d">>, <<"/","b","m","a","d","-","b","m","m","-","p","r","d">>, <<"/","/","b","m","a","d","-","b","m","m","-","p","r","d">>, <<"/","n","o","p","e">>, <<"/">>, <<>>}

QueryDisks ==
  {DiskOne, DiskTwo,
   Disk(LocFull(StdFiles, TRUE), LocAbsent, PromptsA, AgentsA)}

InitQuery == InitRegistry /\ InitUi /\ input = <<>> /\ disk \in QueryDisks

NextQuery ==
  \/ ScanCall("A", wsRoot, Undefined)
  \/ \E k \in Kinds : LoadCsvDone("A", k)
  \/ ScanBuild("A")
  \/ ScanLink("A")
  \/ \E n \in Names : Resolve(n)
  \/ \E q \in Queries, l \in Limits : Search(q, l)
  \/ \E q \in Queries : SearchDefaultLimit(q)

SpecQuery == InitQuery /\ [][NextQuery]_vars

(***************************************************************************)
(* SpecCodec: the two naming conversions applied, one after the other, to  *)
(* a name drawn from CodecInputs.                                          *)
(***************************************************************************)
\* the dash-separated tokens the names are made of
Tokens == {c_bmad, c_agent, <<"x">>, <<>>}

\* how many tokens a name has at most
MaxTokens == 5

\* how many conversions are applied in a row
MaxCalls == 3

\* slash names, with and without the leading slash
SlashInputs ==
  LET names == {join(ts, <<"-">>) : ts \in UNION {[1..n -> Tokens] : n \in 1..MaxTokens}}
  IN  names \cup {<<"/">> \o n : n \in names}

\* CLI commands bmad:<module>:<command> without a dash in module or command
CliInputs ==
  {c_bmad \o <<":">> \o m \o <<":">> \o c : m \in Tokens \cup {<<"b","m","m">>}, c \in Tokens \cup {<<"b","m","m">>}}

CodecInputs == SlashInputs \cup CliInputs

\* what the next conversion is applied to
Current == IF out = <<>> THEN input ELSE out[Len(out)].result

CliToSlash ==
  /\ Len(out) < MaxCalls
  /\ out' = Append(out, [op |-> "cliToSlash", arg |-> Current, result |-> cliToSlash(Current)])
  /\ UNCHANGED <<uiVars, disk, fsChanges, clock, snap, _state, running, pc, args, bmadDir, pending,
                 loaded, ret, seen, finished, overlapped, input>>

SlashToCli ==
  /\ Len(out) < MaxCalls
  /\ out' = Append(out, [op |-> "slashToCli", arg |-> Current, result |-> slashToCli(Current)])
  /\ UNCHANGED <<uiVars, disk, fsChanges, clock, snap, _state, running, pc, args, bmadDir, pending,
                 loaded, ret, seen, finished, overlapped, input>>

InitCodec == InitRegistry /\ InitUi /\ disk = DiskBare /\ input \in CodecInputs

NextCodec == CliToSlash \/ SlashToCli

SpecCodec == InitCodec /\ [][NextCodec]_vars

(***************************************************************************)
(* SpecCsv: parseCsv applied to a file of up to MaxLines lines, and        *)
(* parseCsvLine applied to one of its lines.  A row is written as its      *)
(* cells: the text of the cell in the file and the value it stands for.    *)
(***************************************************************************)
Cell(text, raw) == [text |-> text, raw |-> raw]

r_header ==
  <<Cell(<<"n","a","m","e">>, <<"n","a","m","e">>),
    Cell(<<"m","o","d","u","l","e">>, <<"m","o","d","u","l","e">>),
    Cell(<<"p","a","t","h">>, <<"p","a","t","h">>)>>

r_full ==
  <<Cell(<<"p","m">>, <<"p","m">>),
    Cell(<<"b","m","m">>, <<"b","m","m">>),
    Cell(<<"a","/","p","m",".","m","d">>, <<"a","/","p","m",".","m","d">>)>>

r_short ==
  <<Cell(<<"t","w">>, <<"t","w">>)>>

r_quoted ==
  <<Cell(<<"\"","#","a",",","b","\"">>, <<"#","a",",","b">>),
    Cell(<<" ","c","o","r","e"," ">>, <<" ","c","o","r","e"," ">>),
    Cell(<<"\"","s","a","y"," ","\"","\"","h","i","\"","\"","\"">>, <<"s","a","y"," ","\"","h","i","\"">>)>>

r_long ==
  <<Cell(<<"a">>, <<"a">>),
    Cell(<<"b">>, <<"b">>),
    Cell(<<"c">>, <<"c">>),
    Cell(<<"d">>, <<"d">>)>>

r_empty ==
  <<Cell(<<>>, <<>>),
    Cell(<<>>, <<>>)>>

r_crlf ==
  <<Cell(<<"x">>, <<"x">>),
    Cell(<<"\"","y","\"">>, <<"y">>),
    Cell(<<"z","\r">>, <<"z","\r">>)>>

\* the text of a row: its cells separated by commas
RowText(cells) == join([i \in 1..Len(cells) |-> cells[i].text], <<",">>)

Row(cells) == [row |-> TRUE, cells |-> cells, text |-> RowText(cells)]

\* a line that is no row: blank, or a comment
NoRow(text) == [row |-> FALSE, cells |-> <<>>, text |-> text]

CsvLines ==
  {Row(r_header), Row(r_full), Row(r_short), Row(r_quoted), Row(r_long), Row(r_empty),
   Row(r_crlf), NoRow(<<>>), NoRow(<<" ", "\r">>), NoRow(<<"#", "p", "m", ",", "x">>)}

\* how many lines a file has at most
MaxLines == 3

CsvInputs == UNION {[1..n -> CsvLines] : n \in 1..MaxLines}

\* the content of the file: its lines separated by newlines
FileText(lines) == join([i \in 1..Len(lines) |-> lines[i].text], <<"\n">>)

ParseCsv ==
  /\ out' = <<[op |-> "parseCsv", arg |-> FileText(input),
               result |-> parseCsv(FileText(input))]>>
  /\ UNCHANGED <<uiVars, disk, fsChanges, clock, snap, _state, running, pc, args, bmadDir, pending,
                 loaded, ret, seen, finished, overlapped, input>>

ParseCsvLine(i) ==
  /\ out' = <<[op |-> "parseCsvLine", arg |-> input[i].text, line |-> i,
               result |-> parseCsvLine(input[i].text)]>>
  /\ UNCHANGED <<uiVars, disk, fsChanges, clock, snap, _state, running, pc, args, bmadDir, pending,
                 loaded, ret, seen, finished, overlapped, input>>

InitCsv == InitRegistry /\ InitUi /\ disk = DiskBare /\ input \in CsvInputs

NextCsv == ParseCsv \/ \E i \in 1..Len(input) : ParseCsvLine(i)

SpecCsv == InitCsv /\ [][NextCsv]_vars

(***************************************************************************)
(* Debouncing: refresh() of the two tree providers and debouncedScan of    *)
(* the Copilot adapter.  A timer callback runs when its delay has elapsed, *)
(* before any other event of that instant.                                 *)
(***************************************************************************)
\* the delays handed to setTimeout
EpicRefreshDelay == 300

TechSpecRefreshDelay == 300

ScanDelay == 2000

Delay(c) ==
  CASE c = "epic"     -> EpicRefreshDelay
    [] c = "techSpec" -> TechSpecRefreshDelay
    [] c = "copilot"  -> ScanDelay

\* time advances in steps of this fraction of the delay of the observed
\* component, up to MaxSteps steps; a run has up to MaxTriggers triggers
StepsPerDelay == 2

MaxSteps == 5

MaxTriggers == 3

TimeStep(c) == Delay(c) \div StepsPerDelay

\* clearTimeout(handle)
clearTimeout(tm, handle) == [tm EXCEPT !.pending = {p \in @ : p.id # handle}]

\* handle = setTimeout(callback, delay), called at time `at`
setTimeout(tm, handle, at, delay) ==
  [handle |-> handle, pending |-> tm.pending \cup {[id |-> handle, due |-> at + delay]}]

\* the timers of component c whose delay has elapsed
Due(c) == {p \in timer[c].pending : p.due <= now}

\* (a variant without the clearTimeout)
debounceNoClear(tm, handle, at, delay) == setTimeout(tm, handle, at, delay)

\* the body of refresh() and of debouncedScan: clear the timer if there is
\* one, set a new one
debounce(tm, handle, at, delay) ==
  setTimeout(IF tm.handle # 0 THEN clearTimeout(tm, tm.handle) ELSE tm, handle, at, delay)

\* EpicTreeProvider.refresh() / TechSpecTreeProvider.refresh()
Refresh(c) ==
  /\ c \in Providers
  /\ Len(triggers[c]) < MaxTriggers
  /\ timer' = [timer EXCEPT ![c] = debounce(@, Len(triggers[c]) + 1, now, Delay(c))]
  /\ triggers' = [triggers EXCEPT ![c] = Append(@, now)]
  /\ UNCHANGED <<comp, now, fired, disposals, terminalVars, watcherVars, treeVars, registryVars>>

\* the callback of the timer of refresh(): fire the event, forget the handle
RefreshTimeout(c) ==
  /\ c \in Providers
  /\ \E p \in Due(c) :
       timer' = [timer EXCEPT ![c] = [handle |-> 0, pending |-> @.pending \ {p}]]
  /\ fired' = [fired EXCEPT ![c] = Append(@, now)]
  /\ UNCHANGED <<comp, now, triggers, disposals, terminalVars, watcherVars, treeVars, registryVars>>

\* EpicTreeProvider.dispose() / TechSpecTreeProvider.dispose(), called once,
\* when the subscriptions of the extension context are disposed of: the timer
\* of refresh() is cleared and its handle forgotten, and the event emitter is
\* disposed of
Dispose(c) ==
  /\ c \in Providers
  /\ disposals[c] = <<>>
  /\ timer' = [timer EXCEPT ![c] =
                 IF @.handle # 0
                 THEN [handle |-> 0, pending |-> clearTimeout(@, @.handle).pending]
                 ELSE @]
  /\ disposals' = [disposals EXCEPT ![c] =
                     Append(@, [at |-> now, after |-> Len(triggers[c])])]
  /\ UNCHANGED <<comp, now, triggers, fired, terminalVars, watcherVars, treeVars, registryVars>>

\* debouncedScan(), the handler of the file watchers of the Copilot adapter
DebouncedScan ==
  /\ Len(triggers["copilot"]) < MaxTriggers
  /\ timer' = [timer EXCEPT !["copilot"] =
                 debounce(@, Len(triggers["copilot"]) + 1, now, Delay("copilot"))]
  /\ triggers' = [triggers EXCEPT !["copilot"] = Append(@, now)]
  /\ UNCHANGED <<comp, now, fired, disposals, terminalVars, watcherVars, treeVars, registryVars>>

\* the callback of the timer of debouncedScan: getWorkspaceRoot() gives the
\* folder the watchers were created for, and performScan reads the bmadDir
\* setting and calls registry.scan, which runs up to its await; scanTimer
\* keeps the handle.  The first call is the scan call A, the second B; the
\* bmad.bmadDir setting is not set, so the override is undefined.
ScanTimeout ==
  /\ \E p \in Due("copilot") :
       timer' = [timer EXCEPT !["copilot"].pending = @ \ {p}]
  /\ fired' = [fired EXCEPT !["copilot"] = Append(@, now)]
  /\ scan(IF pc["A"] = "idle" THEN "A" ELSE "B", wsRoot, Undefined)
  /\ UNCHANGED <<comp, now, triggers, disposals, terminalVars, watcherVars, treeVars>>

\* time passes, up to the next tick of the clock of the run or up to the
\* moment the next timer is due, whichever comes first; a timer that is due
\* is run, or cleared, before time passes on
Advance ==
  /\ now < MaxSteps * TimeStep(comp)
  /\ \A x \in Components : Due(x) = {}
  /\ LET tick == now + TimeStep(comp)
         dues == {p.due : p \in UNION {timer[x].pending : x \in Components}}
     IN  now' = IF \E d \in dues : d < tick
                THEN CHOOSE d \in dues : \A e \in dues : d <= e
                ELSE tick
  /\ UNCHANGED <<comp, timer, triggers, fired, disposals, terminalVars, watcherVars, treeVars, registryVars>>

(***************************************************************************)
(* SpecDebounce: the triggers of one of the three components, and time,    *)
(* in a workspace with an installation (DiskOne) or without (DiskBare).    *)
(***************************************************************************)
InitDebounce ==
  /\ InitRegistry /\ input = <<>> /\ disk \in {DiskOne, DiskBare}
  /\ \E c \in Components : InitDebounceVars(c)
  /\ InitTerminalVars(Undefined, Undefined)
  /\ InitWatcherVars
  /\ InitTreeVars(<<>>)

NextDebounce ==
  \/ comp \in Providers /\ Refresh(comp)
  \/ \E c \in Providers : RefreshTimeout(c)
  \/ comp = "copilot" /\ DebouncedScan
  \/ comp \in Providers /\ Dispose(comp)
  \/ ScanTimeout
  \/ \E s \in ScanIds, k \in Kinds : LoadCsvDone(s, k)
  \/ \E s \in ScanIds : ScanBuild(s)
  \/ \E s \in ScanIds : ScanLink(s)
  \/ Advance

SpecDebounce == InitDebounce /\ [][NextDebounce]_vars

(***************************************************************************)
(* extension.ts: the command that runs a story in a terminal, the          *)
(* configuration listener and the file watchers.                           *)
(***************************************************************************)
\* DEFAULT_CLI_TOOL: 'claude'
DEFAULT_CLI_TOOL == <<"c","l","a","u","d","e">>

normalizeCliTool(configuredTool) ==
  LET trimmedTool == IF configuredTool = Undefined THEN Undefined ELSE trim(configuredTool)
  IN  IF Truthy(trimmedTool) THEN trimmedTool ELSE DEFAULT_CLI_TOOL

\* the characters of SAFE_TOOL_PATTERN: [A-Za-z0-9._\\/: -]
SafeChars ==
  {UpperCase[i] : i \in 1..Len(UpperCase)} \cup {LowerCase[i] : i \in 1..Len(LowerCase)}
    \cup {"0", "1", "2", "3", "4", "5", "6", "7", "8", "9"}
    \cup {".", "_", "\\", "/", ":", " ", "-"}

\* SAFE_TOOL_PATTERN.test(tool): one or more characters, all of them safe
isSafeCliTool(tool) == tool # <<>> /\ \A i \in 1..Len(tool) : tool[i] \in SafeChars

\* tool.replace(/(["\\])/g, '\\$1')
RECURSIVE escapeQuotes(_)
escapeQuotes(s) ==
  IF s = <<>> THEN <<>>
  ELSE (IF s[1] \in {"\"", "\\"} THEN <<"\\", s[1]>> ELSE <<s[1]>>) \o escapeQuotes(Tail(s))

quoteCliTool(tool) ==
  IF \A i \in 1..Len(tool) : tool[i] \notin WhiteSpace \cup {"\""} THEN tool
  ELSE <<"\"">> \o escapeQuotes(tool) \o <<"\"">>

\* buildCliCommand: `${quoteCliTool(tool)} "${prompt}"`, the prompt being
\* /bmad:bmm:workflows:<workflow>, followed by the story number if there is one
buildCliCommand(tool, workflow, storyNumber) ==
  LET prefix == <<"/","b","m","a","d",":","b","m","m",":","w","o","r","k","f","l","o","w","s",":">>
      prompt == IF Truthy(storyNumber) THEN prefix \o workflow \o <<" ">> \o storyNumber
                ELSE prefix \o workflow
  IN  quoteCliTool(tool) \o <<" ", "\"">> \o prompt \o <<"\"">>

\* storyNumber ? `Story ${storyNumber}` : `BMAD ${workflow}`
terminalName(storyNumber, workflow) ==
  IF Truthy(storyNumber) THEN <<"S","t","o","r","y"," ">> \o storyNumber
  ELSE <<"B","M","A","D"," ">> \o workflow

\* executeInTerminal from the look-up of the terminal on: the terminal of
\* that name is reused or a new one is created, and the command is sent to it
runInTerminal(terms, texts, inv) ==
  LET name == terminalName(inv.storyNumber, inv.workflow)
      has  == \E k \in 1..Len(terms) : terms[k] = name
  IN  [terminals |-> IF has THEN terms ELSE Append(terms, name),
       sent      |-> Append(texts, [terminal |-> name,
                                    text |-> buildCliCommand(inv.cliTool, inv.workflow,
                                                             inv.storyNumber)])]

\* (a variant without the isSafeCliTool guard)
ExecuteInTerminalAnyTool(i, storyNumber, workflow) ==
  /\ invocations[i].pc = "idle"
  /\ \A j \in Invocations : j < i => invocations[j].pc # "idle"
  /\ LET cliTool == normalizeCliTool(cliToolSetting)
         inv == [pc |-> "done", cliTool |-> cliTool, folder |-> workspaceFolder,
                 storyNumber |-> storyNumber, workflow |-> workflow]
         run == runInTerminal(terminals, sent, inv)
     IN  IF ~Truthy(workspaceFolder)
         THEN /\ messages' = Append(messages, [kind |-> "error", about |-> "no workspace folder"])
              /\ invocations' = [invocations EXCEPT ![i] = inv]
              /\ history' = Append(history, [event |-> "rejected", by |-> i])
              /\ UNCHANGED <<cliChecked, terminals, sent>>
         ELSE IF ~cliChecked
         THEN /\ cliChecked' = TRUE
              /\ invocations' = [invocations EXCEPT ![i] = [inv EXCEPT !.pc = "checking"]]
              /\ history' = Append(history, [event |-> "check", by |-> i])
              /\ UNCHANGED <<messages, terminals, sent>>
         ELSE /\ terminals' = run.terminals
              /\ sent' = run.sent
              /\ invocations' = [invocations EXCEPT ![i] = inv]
              /\ history' = Append(history, [event |-> "run", by |-> i])
              /\ UNCHANGED <<messages, cliChecked>>
  /\ UNCHANGED <<workspaceFolder, cliToolSetting, cliAvailable, debounceVars, watcherVars,
                 treeVars, registryVars>>

\* executeInTerminal up to its await, or to its end when it does not await:
\* the two guards, then the availability check if it has not been made
ExecuteInTerminal(i, storyNumber, workflow) ==
  /\ invocations[i].pc = "idle"
  /\ \A j \in Invocations : j < i => invocations[j].pc # "idle"
  /\ LET cliTool == normalizeCliTool(cliToolSetting)
         inv == [pc |-> "done", cliTool |-> cliTool, folder |-> workspaceFolder,
                 storyNumber |-> storyNumber, workflow |-> workflow]
         run == runInTerminal(terminals, sent, inv)
     IN  IF ~Truthy(workspaceFolder)
         THEN /\ messages' = Append(messages, [kind |-> "error", about |-> "no workspace folder"])
              /\ invocations' = [invocations EXCEPT ![i] = inv]
              /\ history' = Append(history, [event |-> "rejected", by |-> i])
              /\ UNCHANGED <<cliChecked, terminals, sent>>
         ELSE IF ~isSafeCliTool(cliTool)
         THEN /\ messages' = Append(messages, [kind |-> "error", about |-> "invalid tool"])
              /\ invocations' = [invocations EXCEPT ![i] = inv]
              /\ history' = Append(history, [event |-> "rejected", by |-> i])
              /\ UNCHANGED <<cliChecked, terminals, sent>>
         ELSE IF ~cliChecked
         THEN /\ cliChecked' = TRUE
              /\ invocations' = [invocations EXCEPT ![i] = [inv EXCEPT !.pc = "checking"]]
              /\ history' = Append(history, [event |-> "check", by |-> i])
              /\ UNCHANGED <<messages, terminals, sent>>
         ELSE /\ terminals' = run.terminals
              /\ sent' = run.sent
              /\ invocations' = [invocations EXCEPT ![i] = inv]
              /\ history' = Append(history, [event |-> "run", by |-> i])
              /\ UNCHANGED <<messages, cliChecked>>
  /\ UNCHANGED <<workspaceFolder, cliToolSetting, cliAvailable, debounceVars, watcherVars,
                 treeVars, registryVars>>

\* checkCliAvailable resolves and executeInTerminal runs on to its end
CheckCliAvailableDone(i, available) ==
  /\ invocations[i].pc = "checking"
  /\ cliAvailable' = available
  /\ messages' = IF available THEN messages
                 ELSE Append(messages, [kind |-> "warning", about |-> "tool not found"])
  /\ LET run == runInTerminal(terminals, sent, invocations[i])
     IN  terminals' = run.terminals /\ sent' = run.sent
  /\ invocations' = [invocations EXCEPT ![i].pc = "done"]
  /\ UNCHANGED <<workspaceFolder, cliToolSetting, cliChecked, history, debounceVars,
                 watcherVars, treeVars, registryVars>>

\* watcher.dispose() of the watcher a variable of activate holds, if any
dispose(ws, held) == IF held # 0 THEN [ws EXCEPT ![held].disposed = TRUE] ELSE ws

\* the configuration events of a run
MaxEvents == 2

\* (a variant that does not reset cliChecked)
ConfigurationChangedKeepChecked(affected, tool) ==
  /\ events < MaxEvents
  /\ events' = events + 1
  /\ cliToolSetting' = IF "bmad.cliTool" \in affected THEN tool ELSE cliToolSetting
  /\ IF \E key \in affected : key # "editor.fontSize"
     THEN /\ timer' = [c \in Components |->
                         IF c \in Providers
                         THEN debounce(timer[c], Len(triggers[c]) + 1, now, Delay(c))
                         ELSE timer[c]]
          /\ triggers' = [c \in Components |->
                            IF c \in Providers THEN Append(triggers[c], now) ELSE triggers[c]]
          /\ LET epic == "bmad.epicFilePattern" \in affected
                 tech == "bmad.techSpecFilePattern" \in affected
                 ws1  == IF epic
                         THEN Append(dispose(watchers, watcher),
                                     [of |-> "epic", disposed |-> FALSE])
                         ELSE watchers
             IN  /\ watcher' = IF epic THEN Len(ws1) ELSE watcher
                 /\ watchers' = IF tech THEN dispose(ws1, techSpecWatcher) ELSE ws1
                 /\ creating' = IF tech THEN creating + 1 ELSE creating
          /\ cliChecked' = cliChecked
          /\ history' = IF "bmad.cliTool" \in affected
                        THEN Append(history, [event |-> "reset", by |-> 0])
                        ELSE history
     ELSE UNCHANGED <<timer, triggers, watchers, watcher, creating, cliChecked, history>>
  /\ UNCHANGED <<comp, now, fired, disposals, workspaceFolder, cliAvailable, terminals, sent, messages,
                 invocations, techSpecWatcher, configWatcher, treeVars, registryVars>>

\* the settings in `affected` change (bmad.cliTool to `tool`) and the
\* listener of onDidChangeConfiguration runs: the refresh() calls, createWatcher,
\* createTechSpecWatcher up to its await, the reset of cliChecked
ConfigurationChanged(affected, tool) ==
  /\ events < MaxEvents
  /\ events' = events + 1
  /\ cliToolSetting' = IF "bmad.cliTool" \in affected THEN tool ELSE cliToolSetting
  /\ IF \E key \in affected : key # "editor.fontSize"
     THEN /\ timer' = [c \in Components |->
                         IF c \in Providers
                         THEN debounce(timer[c], Len(triggers[c]) + 1, now, Delay(c))
                         ELSE timer[c]]
          /\ triggers' = [c \in Components |->
                            IF c \in Providers THEN Append(triggers[c], now) ELSE triggers[c]]
          /\ LET epic == "bmad.epicFilePattern" \in affected
                 tech == "bmad.techSpecFilePattern" \in affected
                 ws1  == IF epic
                         THEN Append(dispose(watchers, watcher),
                                     [of |-> "epic", disposed |-> FALSE])
                         ELSE watchers
             IN  /\ watcher' = IF epic THEN Len(ws1) ELSE watcher
                 /\ watchers' = IF tech THEN dispose(ws1, techSpecWatcher) ELSE ws1
                 /\ creating' = IF tech THEN creating + 1 ELSE creating
          /\ IF "bmad.cliTool" \in affected
             THEN cliChecked' = FALSE /\ history' = Append(history, [event |-> "reset", by |-> 0])
             ELSE UNCHANGED <<cliChecked, history>>
     ELSE UNCHANGED <<timer, triggers, watchers, watcher, creating, cliChecked, history>>
  /\ UNCHANGED <<comp, now, fired, disposals, workspaceFolder, cliAvailable, terminals, sent, messages,
                 invocations, techSpecWatcher, configWatcher, treeVars, registryVars>>

\* _bmad/bmm/config.yaml changes, is created or deleted: onConfigChange calls
\* techSpecProvider.refresh() and createTechSpecWatcher, which runs up to its
\* await
ConfigFileChanged ==
  /\ events < MaxEvents
  /\ events' = events + 1
  /\ timer' = [timer EXCEPT !["techSpec"] =
                 debounce(@, Len(triggers["techSpec"]) + 1, now, Delay("techSpec"))]
  /\ triggers' = [triggers EXCEPT !["techSpec"] = Append(@, now)]
  /\ watchers' = dispose(watchers, techSpecWatcher)
  /\ creating' = creating + 1
  /\ UNCHANGED <<comp, now, fired, disposals, terminalVars, watcher, techSpecWatcher, configWatcher,
                 treeVars, registryVars>>

\* createTechSpecWatcher after its await: the watcher is created and assigned
CreateTechSpecWatcherResume ==
  /\ creating > 0
  /\ creating' = creating - 1
  /\ watchers' = Append(watchers, [of |-> "techSpec", disposed |-> FALSE])
  /\ techSpecWatcher' = Len(watchers) + 1
  /\ UNCHANGED <<debounceVars, terminalVars, watcher, configWatcher, events, treeVars,
                 registryVars>>

\* the inputs: the values of the settings, the workspace folder, the
\* arguments of each invocation of the command (the first and the third run
\* the same story, so the third finds the terminal of the first), the sets of
\* settings that change together
Tools == {Undefined, <<" ","m","y"," ","t","o","o","l"," ">>, <<"a",";","b">>}

Folders == {Undefined, wsRoot}

Stories == [i \in Invocations |->
             IF i = 2
             THEN [storyNumber |-> Undefined, workflow |-> <<"d","e","v","-","s","t","o","r","y">>]
             ELSE [storyNumber |-> <<"1",".","1">>,
                   workflow |-> <<"c","r","e","a","t","e","-","s","t","o","r","y">>]]

Changes == {{"editor.fontSize"}, {"bmad.cliTool"}, {"bmad.epicFilePattern"},
            {"bmad.techSpecFilePattern", "bmad.cliTool"}}

(***************************************************************************)
(* SpecExtension: three invocations of the command, configuration events   *)
(* and the createTechSpecWatcher calls they start.                         *)
(***************************************************************************)
InitExtension ==
  /\ InitRegistry /\ input = <<>> /\ disk = DiskBare
  /\ InitDebounceVars("epic")
  /\ \E folder \in Folders, tool \in Tools : InitTerminalVars(folder, tool)
  /\ InitWatcherVars
  /\ InitTreeVars(<<>>)

NextExtension ==
  \/ \E i \in Invocations : ExecuteInTerminal(i, Stories[i].storyNumber, Stories[i].workflow)
  \/ \E i \in Invocations, available \in BOOLEAN : CheckCliAvailableDone(i, available)
  \/ \E affected \in Changes, tool \in Tools : ConfigurationChanged(affected, tool)
  \/ ConfigFileChanged
  \/ CreateTechSpecWatcherResume

SpecExtension == InitExtension /\ [][NextExtension]_vars

(***************************************************************************)
(* The tree providers: root-level getChildren and loadFiles                *)
(* (EpicTreeProvider, src/src/epicTreeProvider.ts; TechSpecTreeProvider,   *)
(* src/unnamed/part_006).  A call runs up to its next await in one step.   *)
(* getChildren yields at `await this.loadFiles()` whether loadFiles ran a   *)
(* load or returned at once, and reads this.parsedFiles in its             *)
(* continuation, a later step; the steps of other calls may come between.  *)
(***************************************************************************)

\* parseEpicsFromText / parseTechSpecTasksFromText, as far as the list of the
\* provider goes: one ParsedFile per file, carrying the path of the file
parsed(file) == [filePath |-> file.path]

Loading == {"config", "find", "read"}

\* the finally block of loadFiles, for the call c of provider p, the list of
\* the provider being pf: isLoading = false, and in EpicTreeProvider a pending
\* refresh starts the next load, which runs up to its first await; otherwise
\* loadFiles settles and getChildren waits for its continuation
finally(c, p, pf) ==
  /\ parsedFiles' = [parsedFiles EXCEPT ![p] = pf]
  /\ IF p = "epic" /\ pendingRefresh
     THEN /\ pendingRefresh' = FALSE
          /\ isLoading' = [isLoading EXCEPT ![p] = TRUE]
          /\ loads' = [loads EXCEPT ![p] = [started  |-> @.started + 1,
                                            finished |-> @.finished + 1]]
          /\ asked' = [asked EXCEPT ![p] = FALSE]
          /\ children' = [children EXCEPT ![c] =
                            [@ EXCEPT !.pc = "config", !.files = <<>>, !.next = 0,
                                      !.ran = @ + 1]]
     ELSE /\ isLoading' = [isLoading EXCEPT ![p] = FALSE]
          /\ loads' = [loads EXCEPT ![p].finished = @ + 1]
          /\ children' = [children EXCEPT ![c] =
                            [@ EXCEPT !.pc = "returning"]]
          /\ UNCHANGED <<pendingRefresh, asked>>

\* EpicTreeProvider.loadFiles without the pendingRefresh mark
GetChildrenNoPending(c, p) ==
  /\ children[c].pc = "idle"
  /\ \A b \in Calls : b < c => children[b].pc # "idle"
  /\ IF isLoading[p]
     THEN /\ asked' = [asked EXCEPT ![p] = TRUE]
          /\ children' = [children EXCEPT ![c] =
                            [NoCall EXCEPT !.provider = p, !.pc = "returning"]]
          /\ UNCHANGED <<pendingRefresh, isLoading, loads>>
     ELSE /\ isLoading' = [isLoading EXCEPT ![p] = TRUE]
          /\ loads' = [loads EXCEPT ![p].started = @ + 1]
          /\ asked' = [asked EXCEPT ![p] = FALSE]
          /\ children' = [children EXCEPT ![c] =
                            [NoCall EXCEPT !.provider = p, !.pc = "config", !.ran = 1]]
          /\ UNCHANGED pendingRefresh
  /\ UNCHANGED <<found, parsedFiles, debounceVars, terminalVars, watcherVars, registryVars>>

\* getChildren() with no element, up to its first await: when a load is in
\* progress loadFiles returns at once (EpicTreeProvider marks pendingRefresh
\* first) and getChildren waits for its continuation
GetChildren(c, p) ==
  /\ children[c].pc = "idle"
  /\ \A b \in Calls : b < c => children[b].pc # "idle"
  /\ IF isLoading[p]
     THEN /\ pendingRefresh' = IF p = "epic" THEN TRUE ELSE pendingRefresh
          /\ asked' = [asked EXCEPT ![p] = TRUE]
          /\ children' = [children EXCEPT ![c] =
                            [NoCall EXCEPT !.provider = p, !.pc = "returning"]]
          /\ UNCHANGED <<isLoading, loads>>
     ELSE /\ isLoading' = [isLoading EXCEPT ![p] = TRUE]
          /\ loads' = [loads EXCEPT ![p].started = @ + 1]
          /\ asked' = [asked EXCEPT ![p] = FALSE]
          /\ children' = [children EXCEPT ![c] =
                            [NoCall EXCEPT !.provider = p, !.pc = "config", !.ran = 1]]
          /\ UNCHANGED pendingRefresh
  /\ UNCHANGED <<found, parsedFiles, debounceVars, terminalVars, watcherVars, registryVars>>

\* getPlanningArtifactsPath / getImplementationArtifactsPath resolves (it
\* never rejects): the pattern is built and findFiles is called
ConfigPathDone(c) ==
  /\ children[c].pc = "config"
  /\ children' = [children EXCEPT ![c].pc = "find"]
  /\ UNCHANGED <<found, parsedFiles, isLoading, pendingRefresh, loads, asked,
                 debounceVars, terminalVars, watcherVars, registryVars>>

\* findFiles settles: parsedFiles = [] either way; when it resolved the loop
\* starts reading the first file, and with no file, or when it rejected, the
\* finally block runs
FindFilesDone(c, ok) ==
  /\ children[c].pc = "find"
  /\ LET p == children[c].provider
     IN  IF ok /\ found # <<>>
         THEN /\ parsedFiles' = [parsedFiles EXCEPT ![p] = <<>>]
              /\ children' = [children EXCEPT ![c] =
                                [@ EXCEPT !.pc = "read", !.files = found, !.next = 1]]
              /\ UNCHANGED <<isLoading, pendingRefresh, loads, asked>>
         ELSE finally(c, p, <<>>)
  /\ UNCHANGED <<found, debounceVars, terminalVars, watcherVars, registryVars>>

\* readFile of the current file settles: a file that was read is parsed and
\* pushed, one that was not is skipped; then the next file is read, or the
\* finally block runs
ReadFileDone(c) ==
  /\ children[c].pc = "read"
  /\ LET p    == children[c].provider
         file == children[c].files[children[c].next]
         pf   == IF file.readable THEN Append(parsedFiles[p], parsed(file))
                 ELSE parsedFiles[p]
     IN  IF children[c].next < Len(children[c].files)
         THEN /\ parsedFiles' = [parsedFiles EXCEPT ![p] = pf]
              /\ children' = [children EXCEPT ![c].next = @ + 1]
              /\ UNCHANGED <<isLoading, pendingRefresh, loads, asked>>
         ELSE finally(c, p, pf)
  /\ UNCHANGED <<found, debounceVars, terminalVars, watcherVars, registryVars>>

\* the continuation of getChildren after `await this.loadFiles()`:
\* this.parsedFiles is returned as it is then
GetChildrenReturn(c) ==
  /\ children[c].pc = "returning"
  /\ children' = [children EXCEPT ![c] =
                    [@ EXCEPT !.pc = "done",
                              !.result = parsedFiles[children[c].provider]]]
  /\ UNCHANGED <<found, parsedFiles, isLoading, pendingRefresh, loads, asked,
                 debounceVars, terminalVars, watcherVars, registryVars>>

\* what findFiles finds in the runs: two files, the second of them readable
\* or not, or one file
epicsMd == [path |-> <<"e","p","i","c","s",".","m","d">>, readable |-> TRUE]

epic2Md(readable) == [path |-> <<"e","p","i","c","-","2",".","m","d">>, readable |-> readable]

FoundFiles == {<<epicsMd>>, <<epicsMd, epic2Md(TRUE)>>, <<epicsMd, epic2Md(FALSE)>>}

(***************************************************************************)
(* SpecTree: three root-level getChildren calls on the two providers,      *)
(* overlapping in every way the awaits allow.                              *)
(***************************************************************************)
InitTree ==
  /\ InitRegistry /\ input = <<>> /\ disk = DiskBare
  /\ InitDebounceVars("epic")
  /\ InitTerminalVars(Undefined, Undefined)
  /\ InitWatcherVars
  /\ \E files \in FoundFiles : InitTreeVars(files)

NextTree ==
  \/ \E c \in Calls, p \in Providers : GetChildren(c, p)
  \/ \E c \in Calls : ConfigPathDone(c)
  \/ \E c \in Calls, ok \in BOOLEAN : FindFilesDone(c, ok)
  \/ \E c \in Calls : ReadFileDone(c)
  \/ \E c \in Calls : GetChildrenReturn(c)

SpecTree == InitTree /\ [][NextTree]_vars

(***************************************************************************)
(* Properties.                                                             *)
(***************************************************************************)
\* a scan call that has returned the snapshot it built
Returned(s) == pc[s] = "done" /\ ret[s] = s

\* the rows of a manifest file as they are on disk, none for a file that is
\* absent or unreadable
DiskRows(s, kind) ==
  LET f == disk.bmad[bmadDir[s]].files[kind]
  IN  IF f.readable THEN parseCsv(f.text) ELSE <<>>

RECURSIVE Flatten(_)
Flatten(seqs) == IF seqs = <<>> THEN <<>> ELSE Head(seqs) \o Flatten(Tail(seqs))

\* the command each manifest row produces on its own, as [key, val], in the
\* order catalog rows, agent rows, task rows, tool rows
Candidates(s) ==
  LET h == DiskRows(s, "help")
      a == DiskRows(s, "agent")
      t == DiskRows(s, "task")
      l == DiskRows(s, "tool")
  IN  Flatten([i \in 1..Len(h) |-> registerHelpEntry(h[i], <<>>)])
      \o Flatten([i \in 1..Len(a) |-> registerAgentActivator(a[i], <<>>)])
      \o Flatten([i \in 1..Len(t) |-> registerTaskTool(t[i], "task", <<>>)])
      \o Flatten([i \in 1..Len(l) |-> registerTaskTool(l[i], "tool", <<>>)])

\* a command record without the link the link pass may have added
Unlinked(cmd) == [cmd EXCEPT !.promptFilePath = Undefined]

\* C1: after a scan, a name that several manifest rows produce is stored with
\* the record of the first of these rows in the order catalog, agents, tasks,
\* tools; the later rows are dropped without error (the map holds each name
\* once and the scan returns its snapshot), whatever the order in which the
\* five reads completed.
FirstRowWins ==
  \A s \in ScanIds : Returned(s) =>
    LET c == Candidates(s)
        m == snap[s].commands
    IN  /\ \A i \in 1..Len(c) :
             ((\E j \in 1..Len(c) : j # i /\ c[j].key = c[i].key)
               /\ (\A j \in 1..(i - 1) : c[j].key # c[i].key))
             => /\ mapHas(m, c[i].key)
                /\ Unlinked(mapGet(m, c[i].key)) = c[i].val
        /\ \A i, j \in 1..Len(m) : m[i].key = m[j].key => i = j

\* a scan has returned a snapshot built from manifests in which a row of one
\* kind and a later row of another kind produce the same name with different
\* records
FirstRowWinsWitness ==
  \E s \in ScanIds :
    /\ Returned(s)
    /\ LET c == Candidates(s)
       IN  \E i, j \in 1..Len(c) :
             i < j /\ c[i].key = c[j].key /\ c[i].val.category # c[j].val.category

\* the snapshot a scan call produces from what it read itself: the rows of
\* its five loadCsv calls and the two listings of its link pass
ScanResult(s) ==
  LET r == scanCopilotPromptFiles(args[s].root, <<>>, newCommandMap(s),
                                  seen[s].prompts, seen[s].agents)
  IN  [newState(s, r.commands) EXCEPT !.promptFiles = r.promptFiles,
                                      !.hasCopilotFiles = r.foundAny]

\* a snapshot without the two fields that depend on the moment of the build
CoreOf(state) == [state EXCEPT !.modules = <<>>, !.lastScan = 0]

\* the snapshot object of scan call s is complete: the call has returned and
\* the object holds what that call read, and nothing else
Complete(s) ==
  /\ snap[s].alloc
  /\ pc[s] = "done"
  /\ CoreOf(snap[s]) = CoreOf(ScanResult(s))

\* C2: whenever another task can run (no scan call is between two awaits),
\* this._state, from which `state`, `resolve` and `search` answer, is null or
\* a complete snapshot: the previous one or the new one, never a partial one.
ReadersSeeCompleteSnapshot ==
  running = None => (_state = NullRef \/ Complete(_state))

\* a scan call is waiting for its reads while readers are served from the
\* complete snapshot of the call before, built from a different file system
ReadersSeeCompleteSnapshotWitness ==
  \E s \in ScanIds :
    /\ pc[s] = "reading"
    /\ pending[s] # Kinds
    /\ running = None
    /\ _state \in ScanIds \ {s}
    /\ snap[_state].promptFiles # <<>>
    /\ fsChanges > 0

\* C3 as stated: from its assignment to this._state on, a snapshot object is
\* never modified.
FrozenOnceAssigned ==
  [][\A s \in ScanIds : snap[s].alloc => snap'[s] = snap[s]]_vars

\* C3, amended: a snapshot object is modified after its assignment only by
\* the link pass of the scan call that built it, in the same run between two
\* awaits, before that call returns; once the call has returned the object is
\* never modified again, neither by that call nor by a later scan.
FrozenOnceReturned ==
  [][\A s \in ScanIds :
       (snap[s].alloc /\ snap'[s] # snap[s])
       => (pc[s] = "link" /\ running = s /\ pc'[s] = "done")]_vars

\* a scan call returned a snapshot that its link pass had filled, and then
\* the other scan call built and returned its own
FrozenOnceReturnedWitness ==
  \E s, o \in ScanIds :
    /\ finished = <<s, o>>
    /\ s # o
    /\ pc[o] = "done"
    /\ snap[s].promptFiles # <<>>
    /\ snap[s].hasCopilotFiles

\* C7: a scan call that returns null leaves this._state and every snapshot
\* object as they were.
NullScanKeepsSnapshot ==
  [][\A s \in ScanIds :
       (ret[s] # "null" /\ ret'[s] = "null") => (_state' = _state /\ snap' = snap)]_vars

\* a scan call has returned null while the registry holds the snapshot of an
\* earlier, successful scan
NullScanKeepsSnapshotWitness ==
  \E s \in ScanIds :
    /\ ret[s] = "null"
    /\ _state \in ScanIds \ {s}
    /\ Complete(_state)

\* C8: after two overlapping scan calls have both returned, this._state is
\* the snapshot of the call that returned last, and that snapshot holds
\* exactly what that call read.
LastFinishedScanWins ==
  (overlapped /\ \A s \in ScanIds : Returned(s))
  => /\ _state = finished[Len(finished)]
     /\ Complete(_state)

\* two scan calls overlapped, read different file systems and have both
\* returned
LastFinishedScanWinsWitness ==
  /\ overlapped
  /\ \A s \in ScanIds : Returned(s)
  /\ CoreOf(snap["A"]) # CoreOf(snap["B"])
  /\ snap["A"].commands # snap["B"].commands

\* C4: after a scan every key of the command map begins with `bmad`; a
\* catalog row whose command column does not is rejected.
KeysBeginWithPrefix ==
  \A s \in ScanIds : Returned(s) =>
    \A i \in 1..Len(snap[s].commands) : startsWith(snap[s].commands[i].key, c_bmad)

\* the two .github directories as a scan call with these arguments finds them
LinkDirs(s) ==
  IF args[s].root = wsRoot
  THEN [prompts |-> disk.prompts, agents |-> disk.agents]
  ELSE [prompts |-> NoListing, agents |-> NoListing]

\* the names a directory listing offers to the link pass: none when the
\* directory is absent or cannot be listed
Listed(listing, ext) ==
  IF listing.exists /\ listing.ok
  THEN {listing.names[i] : i \in {j \in 1..Len(listing.names) :
           startsWith(listing.names[j], c_bmad) /\ endsWith(listing.names[j], ext)}}
  ELSE {}

\* file name without its extension
Stem(file, ext) == SubSeq(file, 1, Len(file) - Len(ext))

PromptsPath(s) == pathJoin(pathJoin(args[s].root, c_github), c_prompts)

AgentsPath(s) == pathJoin(pathJoin(args[s].root, c_github), c_agents)

\* C5: no I/O failure makes scan throw or lose the other steps' results.  A
\* scan call never throws and, once past the directory checks, returns a
\* snapshot; in it every manifest kind holds the rows of its file, none for
\* an absent or unreadable file; the module list is empty when the module
\* directory cannot be listed; and every file of a .github directory that
\* can be listed is recorded, whether or not the other directory can.
IoFailuresIsolated ==
  \A s \in ScanIds :
    /\ ret[s] # "threw"
    /\ (pc[s] = "done" /\ bmadDir[s] # <<>>) => Returned(s)
    /\ Returned(s) =>
         /\ snap[s].helpEntries = DiskRows(s, "help")
         /\ snap[s].agents = DiskRows(s, "agent")
         /\ snap[s].workflows = DiskRows(s, "workflow")
         /\ snap[s].tasks = DiskRows(s, "task")
         /\ snap[s].tools = DiskRows(s, "tool")
         /\ ~disk.bmad[bmadDir[s]].listing.ok => snap[s].modules = <<>>
         /\ \A f \in Listed(LinkDirs(s).prompts, c_promptExt) :
              mapHas(snap[s].promptFiles, Stem(f, c_promptExt))
         /\ \A f \in Listed(LinkDirs(s).agents, c_agentExt) :
              mapHas(snap[s].promptFiles, Stem(f, c_agentExt))
         /\ snap[s].hasCopilotFiles =
              (Listed(LinkDirs(s).prompts, c_promptExt) # {}
                 \/ Listed(LinkDirs(s).agents, c_agentExt) # {})

\* a scan has returned a snapshot although one manifest could not be read
\* and .github/prompts could not be listed: the rows of another manifest and
\* the files of .github/agents are in it
IoFailuresIsolatedWitness ==
  \E s \in ScanIds :
    /\ Returned(s)
    /\ \E k \in Kinds : ~disk.bmad[bmadDir[s]].files[k].readable
    /\ snap[s].helpEntries # <<>>
    /\ snap[s].commands # <<>>
    /\ LinkDirs(s).prompts.exists /\ ~LinkDirs(s).prompts.ok
    /\ Listed(LinkDirs(s).agents, c_agentExt) # {}
    /\ snap[s].promptFiles # <<>>

\* the _bmad directories scan(root) may use without an override: the one in
\* root and the one in the parent of root
Locations(s) == IF args[s].root = wsRoot THEN <<wsBmad, topBmad>> ELSE <<topBmad>>

HasConfig(b) == disk.bmad[b].exists /\ disk.bmad[b].hasConfig

\* C6 as stated: without an override, scan returns null exactly when neither
\* location contains _config, and otherwise a snapshot built from a location
\* that contains it.
NullIffNoConfigAnywhere ==
  \A s \in ScanIds : (pc[s] = "done" /\ args[s].override = Undefined) =>
    LET locs == {Locations(s)[i] : i \in 1..Len(Locations(s))}
    IN  /\ ret[s] \in {"null", s}
        /\ ret[s] = "null" <=> \A b \in locs : ~HasConfig(b)
        /\ ret[s] = s => (snap[s].bmadDir \in locs /\ HasConfig(snap[s].bmadDir))

\* the first of the two locations that exists, <<>> when none does
FirstExisting(s) ==
  LET locs == Locations(s)
      hits == {i \in 1..Len(locs) : disk.bmad[locs[i]].exists}
  IN  IF hits = {} THEN <<>>
      ELSE locs[CHOOSE i \in hits : \A j \in hits : i <= j]

\* C6, amended: without an override, scan looks only at the first of the two
\* locations that exists; it returns null, without throwing, exactly when
\* there is none or that one lacks _config, and otherwise a snapshot built
\* from that one.
NullIffFirstLocationLacksConfig ==
  \A s \in ScanIds : (pc[s] = "done" /\ args[s].override = Undefined) =>
    LET first == FirstExisting(s)
    IN  /\ ret[s] \in {"null", s}
        /\ ret[s] = "null" <=> (first = <<>> \/ ~HasConfig(first))
        /\ ret[s] = s =>
             /\ snap[s].bmadDir = first
             /\ snap[s].helpEntries =
                  (IF disk.bmad[first].files["help"].readable
                   THEN parseCsv(disk.bmad[first].files["help"].text) ELSE <<>>)

\* scan(root) without an override has returned a snapshot built from the
\* _bmad of the parent directory, because root has no _bmad
NullIffFirstLocationLacksConfigWitness ==
  \E s \in ScanIds :
    /\ Returned(s)
    /\ args[s].override = Undefined
    /\ args[s].root = wsRoot
    /\ snap[s].bmadDir = topBmad
    /\ snap[s].commands # <<>>

\* C9: after a scan, every agent row (module m, name n) whose command is in
\* the map is linked to .github/agents/bmad-<m>-agents-<n>.agent.md when that
\* file is there.
AgentFilesLinked ==
  \A s \in ScanIds : Returned(s) =>
    LET rows == DiskRows(s, "agent") IN
    \A i \in 1..Len(rows) :
      LET mod  == Or(Get(rows[i], k_module), c_core)
          name == Get(rows[i], k_name)
          cmd  == IF mod = c_core
                  THEN c_bmad \o <<"-">> \o c_agent \o <<"-">> \o name
                  ELSE c_bmad \o <<"-">> \o c_agent \o <<"-">> \o mod \o <<"-">> \o name
          file == c_bmad \o <<"-">> \o Get(rows[i], k_module) \o c_agentsInfix \o name
                    \o c_agentExt
      IN  (mapHas(snap[s].commands, cmd) /\ file \in Listed(LinkDirs(s).agents, c_agentExt))
          => mapGet(snap[s].commands, cmd).promptFilePath = pathJoin(AgentsPath(s), file)

\* C10 as stated: every bmad*.prompt.md of .github/prompts is recorded under
\* its name, and linked to the command of that name if there is one.
PromptFilesLinked ==
  \A s \in ScanIds : Returned(s) =>
    \A f \in Listed(LinkDirs(s).prompts, c_promptExt) :
      LET name == Stem(f, c_promptExt)
          path == pathJoin(PromptsPath(s), f)
      IN  /\ mapHas(snap[s].promptFiles, name)
          /\ mapGet(snap[s].promptFiles, name) = path
          /\ mapHas(snap[s].commands, name)
               => mapGet(snap[s].commands, name).promptFilePath = path

\* the records of the current snapshot that search(query, .) looks for, in
\* the insertion order of the command map
Matching(query) ==
  IF _state = NullRef THEN <<>>
  ELSE LET map == snap[_state].commands
           hit(i) == \/ includes(toLowerCase(map[i].val.slashName), toLowerCase(query))
                     \/ includes(toLowerCase(map[i].val.description), toLowerCase(query))
           hits == SelectSeqIdx(map, {i \in 1..Len(map) : hit(i)})
       IN  [i \in 1..Len(hits) |-> hits[i].val]

\* the last call made was search, with a limit given
Searched == out # <<>> /\ out[1].op = "search"

\* C11: search(query, limit) with limit >= 0 returns at most `limit` records.
SearchAtMostLimit ==
  (Searched /\ out[1].limit >= 0) => Len(out[1].result) <= out[1].limit

\* r is an initial part of m
IsPrefix(r, m) == Len(r) <= Len(m) /\ r = SubSeq(m, 1, Len(r))

\* C12: what search(query, limit) returns is an initial part of the records
\* of the current snapshot whose slashName or description contains the query
\* ignoring case, taken in the insertion order of the command map: every
\* returned record matches, the order is kept and no matching record before
\* a returned one is left out; with no snapshot the result is empty.
SearchReturnsMatchesInOrder ==
  [][(out' # out /\ out'[1].op = "search") =>
       /\ IsPrefix(out'[1].result, Matching(out'[1].arg))
       /\ _state = NullRef => out'[1].result = <<>>]_vars

\* a search for a query with a capital letter has returned two or more
\* records, one of which matches by its description only, and has passed
\* over a record that does not match
SearchReturnsMatchesInOrderWitness ==
  /\ Searched
  /\ _state # NullRef
  /\ Len(out[1].result) >= 2
  /\ IsPrefix(out[1].result, Matching(out[1].arg))
  /\ out[1].arg # toLowerCase(out[1].arg)
  /\ \E i \in 1..Len(out[1].result) :
       ~includes(toLowerCase(out[1].result[i].slashName), toLowerCase(out[1].arg))
  /\ \E i \in 1..Len(out[1].result) :
       out[1].result[i] # snap[_state].commands[i].val

\* a name without one leading slash
WithoutSlash(name) == IF name # <<>> /\ name[1] = "/" THEN Tail(name) ELSE name

\* C13: resolve(name) returns the record stored in the current snapshot under
\* the name without one leading slash, or not-found when there is no such
\* key or no snapshot; the call changes neither the snapshot nor a record.
ResolveReturnsStoredRecord ==
  [][(out' # out /\ out'[1].op = "resolve") =>
       LET key    == WithoutSlash(out'[1].arg)
           stored == _state # NullRef /\ mapHas(snap[_state].commands, key)
       IN  /\ stored => /\ out'[1].result.found
                        /\ out'[1].result.cmd = mapGet(snap[_state].commands, key)
           /\ ~stored => ~out'[1].result.found
           /\ snap' = snap /\ _state' = _state]_vars

\* resolve has been called with a name with a leading slash and has returned
\* the record of the snapshot stored under the name without it
ResolveReturnsStoredRecordWitness ==
  /\ out # <<>> /\ out[1].op = "resolve"
  /\ out[1].arg = <<"/","b","m","a","d","-","b","m","m","-","p","r","d">>
  /\ out[1].result.found
  /\ out[1].result.cmd.slashName = <<"b","m","a","d","-","b","m","m","-","p","r","d">>
  /\ _state # NullRef /\ mapGet(snap[_state].commands, <<"b","m","a","d","-","b","m","m","-","p","r","d">>) = out[1].result.cmd

\* the i-th conversion applied was op
Applied(i, op) == Len(out) >= i /\ out[i].op = op

\* C14: for x = cliToSlash(bmad:<module>:<command>) with no dash in module
\* or command, cliToSlash(slashToCli(x)) = x.
RoundTripNoDash ==
  (/\ Applied(1, "cliToSlash") /\ out[1].arg \in CliInputs
   /\ Applied(2, "slashToCli") /\ Applied(3, "cliToSlash"))
  => out[3].result = out[1].result

\* the round trip has been made from bmad:bmm:x: the slash name is
\* bmad-bmm-x and the conversion back found the CLI command again
RoundTripNoDashWitness ==
  /\ Applied(1, "cliToSlash") /\ out[1].arg = c_bmad \o <<":">> \o <<"b","m","m">> \o <<":">> \o <<"x">>
  /\ out[1].result = c_bmad \o <<"-">> \o <<"b","m","m">> \o <<"-">> \o <<"x">>
  /\ Applied(2, "slashToCli") /\ out[2].result = out[1].arg
  /\ Applied(3, "cliToSlash") /\ out[3].result = out[1].result

\* the dash-separated tokens of a name
TokensOf(name) == split(name, "-")

\* tokens i.. of a name, joined with dashes again
RestFrom(name, i) == join(SubSeq(TokensOf(name), i, Len(TokensOf(name))), <<"-">>)

\* C15: for a name whose first token is bmad and whose second token is
\* agent, slashToCli returns bmad:agent:<token 3>:<tokens 4.. joined with
\* dashes> when there are four or more tokens and bmad:agent:<token 3> when
\* there are exactly three.
AgentNamesToCli ==
  \A i \in 1..Len(out) :
    LET name == out[i].arg
        toks == TokensOf(name)
    IN  (out[i].op = "slashToCli" /\ Len(toks) >= 3 /\ toks[1] = c_bmad /\ toks[2] = c_agent)
        => /\ Len(toks) >= 4 =>
                out[i].result = c_bmad \o <<":">> \o c_agent \o <<":">> \o toks[3]
                                   \o <<":">> \o RestFrom(name, 4)
           /\ Len(toks) = 3 =>
                out[i].result = c_bmad \o <<":">> \o c_agent \o <<":">> \o toks[3]

\* slashToCli has been applied to bmad-agent-x-x-x, giving bmad:agent:x:x-x
AgentNamesToCliWitness ==
  /\ Applied(1, "slashToCli")
  /\ out[1].arg = c_bmad \o <<"-">> \o c_agent \o <<"-","x","-","x","-","x">>
  /\ out[1].result = c_bmad \o <<":">> \o c_agent \o <<":","x",":","x","-","x">>

\* C16 as stated: for a name whose second token is not agent, slashToCli
\* returns the name unchanged if its first token is not bmad, bmad:<token 2>
\* if it has exactly two tokens, and bmad:<token 2>:<tokens 3.. joined with
\* dashes> otherwise.
OtherNamesToCli ==
  \A i \in 1..Len(out) :
    LET name == out[i].arg
        toks == TokensOf(name)
    IN  (out[i].op = "slashToCli" /\ ~(Len(toks) >= 2 /\ toks[2] = c_agent))
        => out[i].result =
             (IF toks[1] # c_bmad THEN name
              ELSE IF Len(toks) = 2 THEN c_bmad \o <<":">> \o toks[2]
              ELSE c_bmad \o <<":">> \o (IF Len(toks) >= 2 THEN toks[2] ELSE <<>>)
                     \o <<":">> \o RestFrom(name, 3))

\* C16, amended: slashToCli first removes one leading slash; for the name so
\* obtained, when its second token is not agent: if its first token is not
\* bmad the result is that name; with exactly two tokens it is
\* bmad:<token 2>; with three or more it is bmad:<token 2>:<tokens 3..
\* joined with dashes>.
OtherNamesToCliAfterSlash ==
  \A i \in 1..Len(out) :
    LET name == WithoutSlash(out[i].arg)
        toks == TokensOf(name)
    IN  (out[i].op = "slashToCli" /\ ~(Len(toks) >= 2 /\ toks[2] = c_agent))
        => /\ toks[1] # c_bmad => out[i].result = name
           /\ (toks[1] = c_bmad /\ Len(toks) = 2) =>
                out[i].result = c_bmad \o <<":">> \o toks[2]
           /\ (toks[1] = c_bmad /\ Len(toks) >= 3) =>
                out[i].result = c_bmad \o <<":">> \o toks[2] \o <<":">> \o RestFrom(name, 3)

\* slashToCli has been applied to /bmad-x-x-x, giving bmad:x:x-x
OtherNamesToCliAfterSlashWitness ==
  /\ Applied(1, "slashToCli")
  /\ out[1].arg = <<"/">> \o c_bmad \o <<"-","x","-","x","-","x">>
  /\ out[1].result = c_bmad \o <<":","x",":","x","-","x">>

\* the rows of the file: the first is the header, the others are data rows
RowsOf(lines) == SelectSeq(lines, LAMBDA l : l.row)

\* the keys of a header row
HeaderKeys(header) == {trim(header.cells[h].raw) : h \in 1..Len(header.cells)}

\* column h of the header is the last one of its name
LastOfName(header, h) ==
  \A g \in 1..Len(header.cells) :
    trim(header.cells[g].raw) = trim(header.cells[h].raw) => g <= h

\* parseCsv has been applied to the file
ParsedCsv == out # <<>> /\ out[1].op = "parseCsv"

\* C17: for a file with a header row and N data rows, parseCsv returns N
\* records, the r-th made from the r-th data row, each with every key of the
\* header; a field the row does not have is the empty string.
OneRecordPerDataRow ==
  (ParsedCsv /\ Len(RowsOf(input)) >= 1) =>
    LET rows   == RowsOf(input)
        header == rows[1]
        recs   == out[1].result
    IN  /\ Len(recs) = Len(rows) - 1
        /\ \A r \in 1..Len(recs) :
             /\ DOMAIN recs[r] = HeaderKeys(header)
             /\ \A h \in 1..Len(header.cells) : LastOfName(header, h) =>
                  recs[r][trim(header.cells[h].raw)] =
                    (IF h <= Len(rows[r + 1].cells) THEN trim(rows[r + 1].cells[h].raw)
                     ELSE <<>>)

\* parseCsv has returned two records for a file with a three-column header,
\* a full data row and a data row with one field only, whose other fields
\* are empty strings
OneRecordPerDataRowWitness ==
  /\ ParsedCsv
  /\ RowsOf(input) = <<Row(r_header), Row(r_full), Row(r_short)>>
  /\ Len(out[1].result) = 2
  /\ out[1].result[1][k_name] = <<"p", "m">>
  /\ out[1].result[2][k_name] = <<"t", "w">>
  /\ out[1].result[2][k_module] = <<>>
  /\ out[1].result[2][k_path] = <<>>

\* a cell written between double quotes
Quoted(cell) == cell.text # <<>> /\ cell.text[1] = "\""

\* C18: splitting a row gives one field per cell, with the cell's value: a
\* comma or a # between double quotes stays in the field and a doubled
\* double-quote there becomes one; and a row that begins with a quoted # is
\* a data row, not a comment.
QuotedFieldsKept ==
  /\ (out # <<>> /\ out[1].op = "parseCsvLine" /\ input[out[1].line].row) =>
       LET cells == input[out[1].line].cells
       IN  out[1].result = [i \in 1..Len(cells) |-> cells[i].raw]
  /\ (ParsedCsv /\ Len(RowsOf(input)) >= 2) =>
       LET rows == RowsOf(input)
           keys == [h \in 1..Len(rows[1].cells) |-> trim(rows[1].cells[h].raw)]
       IN  \A r \in 2..Len(rows) : \A h \in 1..Len(keys) :
             (h <= Len(rows[r].cells) /\ Quoted(rows[r].cells[h]) /\ LastOfName(rows[1], h))
             => /\ Len(out[1].result) >= r - 1
                /\ out[1].result[r - 1][keys[h]] = trim(rows[r].cells[h].raw)

\* the row "#a,b", core ,"say ""hi""" has been read as a data row under a
\* three-column header: its first field is #a,b and its third is say "hi"
QuotedFieldsKeptWitness ==
  /\ ParsedCsv
  /\ RowsOf(input) = <<Row(r_header), Row(r_quoted)>>
  /\ Len(out[1].result) = 1
  /\ out[1].result[1][k_name] = <<"#", "a", ",", "b">>
  /\ out[1].result[1][k_path] = <<"s", "a", "y", " ", "\"", "h", "i", "\"">>

n_createPrd == <<"b","m","a","d","-","b","m","m","-","c","r","e","a","t","e","-","p","r","d">>

n_agentPm == <<"b","m","a","d","-","a","g","e","n","t","-","b","m","m","-","p","m">>

c_md == <<".","m","d">>

\* the scan has read one catalog row, with a command and a workflow file
\* ending in .md, one agent row with a module other than core, and no task
\* or tool row
OneCommandOneAgent(s) ==
  /\ Returned(s)
  /\ Len(DiskRows(s, "help")) = 1
  /\ Truthy(trimOpt(Get(DiskRows(s, "help")[1], k_command)))
  /\ endsWith(trim(Get(DiskRows(s, "help")[1], k_workflowFile)), c_md)
  /\ Len(DiskRows(s, "agent")) = 1
  /\ Truthy(Get(DiskRows(s, "agent")[1], k_module))
  /\ Get(DiskRows(s, "agent")[1], k_module) # c_core
  /\ DiskRows(s, "task") = <<>> /\ DiskRows(s, "tool") = <<>>

\* the command of the catalog row
RowCommand(s) == trim(Get(DiskRows(s, "help")[1], k_command))

\* the name of the agent row's activator: bmad-agent-<m>-<n>
RowAgent(s) ==
  c_bmad \o <<"-">> \o c_agent \o <<"-">> \o Get(DiskRows(s, "agent")[1], k_module)
    \o <<"-">> \o Get(DiskRows(s, "agent")[1], k_name)

\* the record stored under key is named key and has this category and pattern
Stored(s, key, category, pattern) ==
  /\ mapHas(snap[s].commands, key)
  /\ mapGet(snap[s].commands, key).slashName = key
  /\ mapGet(snap[s].commands, key).category = category
  /\ mapGet(snap[s].commands, key).pattern = pattern

\* C19 as stated: such a scan yields a command map with exactly two entries,
\* c (workflow, md-workflow) and bmad-agent-<m>-<n> (agent, agent-activator).
ScenarioYieldsTwoEntries ==
  \A s \in ScanIds : OneCommandOneAgent(s) =>
    /\ Len(snap[s].commands) = 2
    /\ Stored(s, RowCommand(s), "workflow", "md-workflow")
    /\ Stored(s, RowAgent(s), "agent", "agent-activator")

\* C19, amended: when c is not bmad-agent-<m>-<n>, the map has exactly these
\* two entries, c first; when c is that very name the map has one entry, the
\* catalog row's (workflow, md-workflow), and the agent row adds none.
ScenarioYieldsTwoEntriesUnlessSameName ==
  \A s \in ScanIds : OneCommandOneAgent(s) =>
    /\ Stored(s, RowCommand(s), "workflow", "md-workflow")
    /\ RowCommand(s) # RowAgent(s) =>
         /\ mapKeys(snap[s].commands) = {RowCommand(s), RowAgent(s)}
         /\ Len(snap[s].commands) = 2
         /\ snap[s].commands[1].key = RowCommand(s)
         /\ Stored(s, RowAgent(s), "agent", "agent-activator")
    /\ RowCommand(s) = RowAgent(s) => Len(snap[s].commands) = 1

\* the scan of the scenario has returned: bmad-bmm-create-prd is a workflow
\* with pattern md-workflow and bmad-agent-bmm-pm an agent activator
ScenarioYieldsTwoEntriesWitness ==
  \E s \in ScanIds :
    /\ OneCommandOneAgent(s)
    /\ Len(snap[s].commands) = 2
    /\ Stored(s, n_createPrd, "workflow", "md-workflow")
    /\ Stored(s, n_agentPm, "agent", "agent-activator")

\* C20: in every snapshot each entry of the command map is stored under the
\* slashName of its own record.
KeysAreSlashNames ==
  \A s \in ScanIds : snap[s].alloc =>
    \A i \in 1..Len(snap[s].commands) :
      snap[s].commands[i].key = snap[s].commands[i].val.slashName

\* a snapshot has been returned whose map holds a catalog command, an agent,
\* a task and a tool, one of them linked to a file
KeysAreSlashNamesWitness ==
  \E s \in ScanIds :
    /\ Returned(s)
    /\ \A c \in {"workflow", "agent", "task", "tool"} :
         \E i \in 1..Len(snap[s].commands) : snap[s].commands[i].val.category = c
    /\ \E i \in 1..Len(snap[s].commands) :
         snap[s].commands[i].val.promptFilePath # Undefined

\* C29: for every command record of a snapshot, cliToSlash applied to its
\* cliSyntax gives its slashName.
CliSyntaxGivesSlashName ==
  \A s \in ScanIds : Returned(s) =>
    \A i \in 1..Len(snap[s].commands) :
      cliToSlash(snap[s].commands[i].val.cliSyntax) = snap[s].commands[i].val.slashName

\* the paths the snapshot's promptFiles map records
RecordedPaths(s) == {snap[s].promptFiles[i].val : i \in 1..Len(snap[s].promptFiles)}

\* C30: in every snapshot returned by scan, the promptFilePath of a command,
\* when set, is a path that the snapshot's promptFiles map records.
LinkedPathsAreRecorded ==
  \A s \in ScanIds : Returned(s) =>
    \A i \in 1..Len(snap[s].commands) :
      snap[s].commands[i].val.promptFilePath # Undefined
        => snap[s].commands[i].val.promptFilePath \in RecordedPaths(s)


\* the scan call s has returned null or a snapshot
Resolved(s) == pc[s] = "done" /\ ret[s] \in ScanIds \cup {NullRef}

\* C21: every scan call that was made eventually returns null or a snapshot,
\* provided its file reads and directory listings return.
ScanRunsToCompletion ==
  \A s \in ScanIds : (pc[s] # "idle") ~> Resolved(s)

\* two overlapping scan calls both returned a snapshot although the
\* workspace changed and a manifest file of it cannot be read
ScanRunsToCompletionWitness ==
  /\ \A s \in ScanIds : Resolved(s) /\ ret[s] \in ScanIds
  /\ overlapped
  /\ fsChanges > 0
  /\ \E k \in Kinds : ~readFile(disk, pathJoin(pathJoin(wsBmad, c_config), manifestName(k))).ok


\* the text of the manifest file of kind k that the scan call s reads
ManifestText(s, k) == disk.bmad[bmadDir[s]].files[k].text

\* the manifest files the scan call s has read that begin with a byte-order mark
ReadWithBom(s) ==
  {k \in Kinds :
     /\ pc[s] # "idle" /\ bmadDir[s] \in BmadPaths /\ k \notin pending[s]
     /\ disk.bmad[bmadDir[s]].files[k].readable
     /\ ManifestText(s, k) # <<>> /\ ManifestText(s, k)[1] = BOM}

\* C22: the rows loadCsv returns for a manifest file that begins with a
\* byte-order mark are the rows of the same text without the mark, and their
\* first key is the plain name of the first column.
LoadCsvStripsBom ==
  \A s \in ScanIds : \A k \in ReadWithBom(s) :
    /\ loaded[s][k] = parseCsv(Tail(ManifestText(s, k)))
    /\ \A r \in 1..Len(loaded[s][k]) : k_module \in DOMAIN loaded[s][k][r]


\* the triggers of component c that end a burst: the last one, and every one
\* followed by the next not sooner than the delay
EndsBurst(c) ==
  {i \in 1..Len(triggers[c]) :
     i = Len(triggers[c]) \/ triggers[c][i + 1] - triggers[c][i] >= Delay(c)}

\* those whose delay has elapsed and whose callback has had its turn
Elapsed(c) ==
  {i \in EndsBurst(c) :
     \/ i < Len(triggers[c])
     \/ triggers[c][i] + Delay(c) < now
     \/ triggers[c][i] + Delay(c) = now /\ timer[c].pending = {}}

\* the callback of component c has run once for every trigger of `ends`, one
\* delay after it, and at no other time; in the Copilot adapter as many scans
\* of the registry have been started
AnsweredOnce(c, ends) ==
  LET at == SelectSeqIdx(triggers[c], ends)
  IN  /\ fired[c] = [j \in 1..Len(at) |-> at[j] + Delay(c)]
      /\ c = "copilot" => Cardinality({s \in ScanIds : pc[s] # "idle"}) = Len(at)

\* C23, as stated: the timer callback of a component has run exactly once for
\* every burst of triggers whose delay has elapsed, one delay after the last
\* trigger of the burst, and at no other time.
OneActionPerBurst ==
  \A c \in Components : AnsweredOnce(c, Elapsed(c))

\* the moment the timer of trigger i of component c is due
DueAt(c, i) == triggers[c][i] + Delay(c)

\* the bursts cut short: dispose() was called after the last trigger of the
\* burst and before its delay had elapsed
Cancelled(c) ==
  {i \in EndsBurst(c) :
     \E d \in 1..Len(disposals[c]) :
       disposals[c][d].after = i /\ disposals[c][d].at < DueAt(c, i)}

\* the bursts whose timer met the next trigger, or dispose(), at the very
\* moment it was due: the callback ran first, or the timer was cleared first
Met(c) ==
  {i \in EndsBurst(c) :
     \/ i < Len(triggers[c]) /\ triggers[c][i + 1] = DueAt(c, i)
     \/ \E d \in 1..Len(disposals[c]) :
          disposals[c][d].after = i /\ disposals[c][d].at = DueAt(c, i)}

\* C23, amended: the timer callback of a component has run exactly once, one
\* delay after the last trigger, for every burst of triggers whose delay has
\* elapsed with the timer left alone: not for a burst after which the
\* provider was disposed of before the delay had elapsed, and once or not at
\* all for a burst whose timer met the next trigger or dispose() at the
\* moment it was due; it has run at no other time.
OneActionPerBurstUnlessCleared ==
  \A c \in Components :
    \E some \in SUBSET ((Met(c) \cap Elapsed(c)) \ Cancelled(c)) :
      AnsweredOnce(c, ((Elapsed(c) \ Cancelled(c)) \ Met(c)) \cup some)

\* a burst of two triggers at different times and a later burst have each
\* been answered by one callback
OneActionPerBurstWitness ==
  \E c \in Components :
    /\ Len(triggers[c]) = 3 /\ Len(fired[c]) = 2
    /\ triggers[c][1] < triggers[c][2]
    /\ triggers[c][2] - triggers[c][1] < Delay(c)
    /\ fired[c][1] = triggers[c][2] + Delay(c)


\* the call of the invocation i of executeInTerminal
Called(i) == invocations[i].pc = "idle" /\ invocations'[i].pc # "idle"

\* no workspace folder is open, or the configured tool fails isSafeCliTool
Rejected == ~Truthy(workspaceFolder) \/ ~isSafeCliTool(normalizeCliTool(cliToolSetting))

\* C24: a call of executeInTerminal made when no workspace folder is open or
\* when the configured tool fails isSafeCliTool creates no terminal, sends no
\* text, shows an error message and returns.
NoTerminalWhenRejected ==
  [][\A i \in Invocations :
       (Called(i) /\ Rejected) =>
         /\ terminals' = terminals
         /\ sent' = sent
         /\ Len(messages') = Len(messages) + 1
         /\ messages'[Len(messages')].kind = "error"
         /\ invocations'[i].pc = "done"]_vars

\* after a command was sent to a terminal, the tool was set to an unsafe name
\* and the next invocation was turned down with an error
NoTerminalWhenRejectedWitness ==
  /\ Len(sent) = 1
  /\ Truthy(workspaceFolder)
  /\ \E i \in Invocations :
       /\ invocations[i].pc = "done"
       /\ ~isSafeCliTool(invocations[i].cliTool)
       /\ history[Len(history)] = [event |-> "rejected", by |-> i]
  /\ messages[Len(messages)] = [kind |-> "error", about |-> "invalid tool"]

\* the entries of history that are invocations past the two guards
Passing(k) == history[k].event \in {"check", "run"}

\* no entry between j and k is a reset of cliChecked
SameEpoch(j, k) == \A r \in j..k : history[r].event # "reset"

\* the first executeInTerminal call at all since the last reset
FirstInvocation(k) ==
  /\ history[k].event # "reset"
  /\ \A j \in 1..(k - 1) : ~SameEpoch(j, k)

\* the first call past the two guards since the last reset
FirstPassing(k) ==
  /\ Passing(k)
  /\ \A j \in 1..(k - 1) : Passing(j) => ~SameEpoch(j, k)

\* C26 as stated: between two resets of cliChecked the availability check is
\* made by the first invocation of the command and by no other.
CheckOnFirstInvocation ==
  \A k \in 1..Len(history) :
    history[k].event # "reset" => (history[k].event = "check" <=> FirstInvocation(k))

\* C26: between two resets of cliChecked the availability check is made by
\* the first invocation that passes the workspace-folder and tool-name guards
\* and by no other.
CheckOnFirstPassingInvocation ==
  \A k \in 1..Len(history) :
    Passing(k) => (history[k].event = "check" <=> FirstPassing(k))

\* one invocation checked, the next did not, the setting changed and the
\* third invocation checked again
CheckOnFirstPassingInvocationWitness ==
  /\ Len(history) = 4
  /\ history[1].event = "check"
  /\ history[2].event = "run"
  /\ history[3].event = "reset"
  /\ history[4].event = "check"
  /\ \A i \in Invocations : invocations[i].pc = "done"

\* the tech-spec watchers that are not disposed of
LiveTechSpecWatchers ==
  {k \in 1..Len(watchers) : watchers[k].of = "techSpec" /\ ~watchers[k].disposed}

\* C28: at most one watcher created by createTechSpecWatcher is undisposed.
AtMostOneTechSpecWatcher == Cardinality(LiveTechSpecWatchers) <= 1

\* C25: in EpicTreeProvider at most one execution of the loading body is in
\* progress at any time, isLoading is false whenever none is, and a load asked
\* for while one is in progress is not lost: the step that finishes the load
\* in progress starts another one.
LoadsInProgress(p) ==
  {c \in Calls : children[c].provider = p /\ children[c].pc \in Loading}

OneLoadAtATime ==
  /\ Cardinality(LoadsInProgress("epic")) <= 1
  /\ LoadsInProgress("epic") = {} => ~isLoading["epic"]
  /\ Cardinality(LoadsInProgress("epic")) = loads["epic"].started - loads["epic"].finished

LoadsAreSerialAndNotLost ==
  /\ []OneLoadAtATime
  /\ [][loads'["epic"].finished > loads["epic"].finished /\ asked["epic"]
          => /\ loads'["epic"].started = loads["epic"].started + 1
             /\ LoadsInProgress("epic")' # {}]_vars

\* a call has run two loads, the second one asked for by a call made during
\* the first, and has returned
LoadsAreSerialAndNotLostWitness ==
  \E c, b \in Calls :
    /\ children[c].provider = "epic" /\ children[c].pc = "done" /\ children[c].ran = 2
    /\ children[b].provider = "epic" /\ children[b].pc = "done" /\ children[b].ran = 0
    /\ ~isLoading["epic"]

\* C27: every root-level getChildren call returns the list of a completed
\* load: the readable files of what findFiles found, in order, or the empty
\* list of a load whose findFiles failed.
RECURSIVE listOf(_)
listOf(files) ==
  IF files = <<>> THEN <<>>
  ELSE (IF Head(files).readable THEN <<parsed(Head(files))>> ELSE <<>>) \o listOf(Tail(files))

ReturnsCompletedLoad ==
  \A c \in Calls :
    children[c].pc = "done" =>
      \/ children[c].result = listOf(found)
      \/ children[c].result = <<>> /\ loads[children[c].provider].finished > 0
====
